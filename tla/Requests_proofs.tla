--------------------------- MODULE Requests_proofs ---------------------------
(***************************************************************************)
(* IInv is an inductive invariant of Requests, for any operations run      *)
(* beside each other and any number of killed threads. From it follow the  *)
(* safety properties of Requests, and that its steps are steps of          *)
(* MainRequests.                                                           *)
(*                                                                         *)
(* But for the agent's loop, which all share, operations keep apart: most  *)
(* of the invariant speaks of one operation, and a step of another leaves  *)
(* it Untouched.                                                           *)
(***************************************************************************)
EXTENDS Requests, FiniteSetTheorems, TLAPS

(* A call is with the board's own work, on its way to the agent, or in the  *)
(* agent's hands.                                                          *)
Noted(r)   == \E v \in Final : <<r, v>> \in notes
InAgent(r) == pc[Agent] # "idle" /\ req[Agent] = r
Passed(r)  == r \in running \/ Noted(r) \/ InAgent(r)

AtCounter == {"read_main", "save_main"}
OnCall    == {"lookup", "call", "wait"} \cup AtCounter
Working   == {"new_res", "call", "wait", "save_res", "save_req", "next"} \cup AtCounter

(* What the agent's loop may be doing. *)
AgentPlace ==
  /\ pc[Agent] \in {"idle", "save_req"} \cup AtCounter
  /\ pc[Agent] # "idle" =>
       \E o \in Ops : req[Agent] \in Subs(o) /\ (pc[Agent] \in AtCounter => HasMain(o))

(* Only calls are sent to the board and come back from it. *)
Origin ==
  \A r \in Requests :
    reply[r] = "sent" \/ r \in running \/ Noted(r) => \E o \in Ops : r \in Subs(o)

(* What the thread of an operation may be doing where it is. *)
Place(o) ==
  /\ pc[o] # "idle"
  /\ req[o] = NULL \/ req[o] = Main(o) \/ req[o] \in Subs(o)
  /\ pc[o] = "start" => req[o] = NULL
  /\ pc[o] \in Working => req[o] # NULL
  /\ pc[o] \in OnCall => req[o] \in Subs(o)
  /\ pc[o] \in AtCounter => HasMain(o)

(* The calls of an operation are made in order, under its main request.     *)
InOrder(o) ==
  /\ req[o] \notin Subs(o) => \A r \in Subs(o) : status[r] = NULL
  /\ req[o] \in Subs(o) =>
       /\ \A r \in Subs(o) : r[2] < req[o][2] => status[r] # NULL
       /\ \A r \in Subs(o) : r[2] > req[o][2] => status[r] = NULL
       /\ HasMain(o) => status[Main(o)] # NULL
  /\ pc[o] = "start" => status[Main(o)] = NULL
  /\ pc[o] = "lookup" => status[req[o]] = NULL
  /\ pc[o] \in Working => status[req[o]] # NULL

(* What the rows and the reply of a call say where its thread is.           *)
AtCall(o) ==
  req[o] \in Subs(o) =>
    LET r == req[o] IN
    /\ pc[o] \in {"new_res", "call"} => reply[r] = NULL /\ status[r] = "PENDING"
    /\ pc[o] = "wait" => reply[r] # NULL /\ (reply[r] \in Final => status[r] = "PENDING")
    /\ pc[o] \in {"save_res", "save_req"} => reply[r] \in Final /\ status[r] = "PENDING"
    /\ pc[o] = "save_req" => result[r] \in Final
    /\ pc[o] \in AtCounter => reply[r] \in Final /\ status[r] = "COMPLETED"
    /\ pc[o] = "next" => reply[r] \in Results /\ (reply[r] \in Final => status[r] = "COMPLETED")

(* A refusal answers its main request on the spot. *)
AtRefusal(o) ==
  req[o] = Main(o) =>
    /\ pc[o] \in {"new_res", "save_res", "save_req", "next", "done"}
    /\ pc[o] \in {"new_res", "save_res", "save_req"} => reply[req[o]] \in Final
    /\ reply[req[o]] # "sent"

(* A call answered RUNNING is passed on once, and its thread leaves it.     *)
Handed(o, r) ==
  /\ status[r] = NULL => reply[r] = NULL
  /\ reply[r] = "sent" => status[r] = "PENDING"
  /\ status[r] = "COMPLETED" => result[r] \in Final
  /\ Passed(r) =>
       /\ reply[r] \in {NULL, "RUNNING"}
       /\ req[o] = r => pc[o] \in {"wait", "next", "done"}
  /\ r \in running => status[r] = "PENDING" /\ ~Noted(r) /\ ~InAgent(r)
  /\ Noted(r) => status[r] = "PENDING" /\ ~InAgent(r)
  /\ \A v, w \in Final : <<r, v>> \in notes /\ <<r, w>> \in notes => v = w
  /\ InAgent(r) =>
       /\ pc[Agent] = "save_req" => status[r] = "PENDING" /\ result[r] \in Final
       /\ pc[Agent] \in AtCounter => status[r] = "COMPLETED"

Passing(o) == \A r \in Subs(o) : Handed(o, r)

(* A call that stays PENDING is on its way, or dropped: PendingIsOwed for   *)
(* one operation, and the same of every call answered RUNNING.              *)
Owed(o) ==
  \A r \in Subs(o) : status[r] = "PENDING" =>
    /\ reply[r] = "RUNNING" => Passed(r) \/ r \in dropped
    /\ \/ req[o] = r /\ pc[o] \notin {"next", "done", "idle"}
       \/ Passed(r)
       \/ r \in dropped

(* The calls that are still to be counted down: those not completed, and    *)
(* those of the threads on their way to the counter.                       *)
OpenCalls(o) == {r \in Subs(o) : status[r] # "COMPLETED"}
Turn(t, o)   == IF pc[t] \in AtCounter /\ Op(t) = o THEN 1 ELSE 0
Due(o)       == Cardinality(OpenCalls(o)) + Turn(o, o) + Turn(Agent, o)

(* The counter, and every copy a thread has read, is no less than what is   *)
(* due: what others do after a thread has read it only pays the debt.       *)
Counting(o) ==
  HasMain(o) /\ req[o] \in Subs(o) =>
    /\ pending[o] >= Due(o)
    /\ \A t \in {o, Agent} : pc[t] = "save_main" /\ Op(t) = o => cnt[t] >= Due(o)
    /\ status[Main(o)] = "COMPLETED" => OpenCalls(o) = {}

OpInv(o) ==
  /\ Place(o)
  /\ InOrder(o)
  /\ AtCall(o)
  /\ AtRefusal(o)
  /\ Passing(o)
  /\ Owed(o)
  /\ Counting(o)

IInv ==
  /\ TypeOK
  /\ AgentPlace
  /\ Origin
  /\ \A o \in Ops : OpInv(o)

(* A step that is none of an operation: it changes nothing of its calls,    *)
(* and the agent's loop does not take or leave one of them.                 *)
Untouched(o) ==
  /\ pc'[o] = pc[o] /\ req'[o] = req[o] /\ cnt'[o] = cnt[o] /\ pending'[o] = pending[o]
  /\ \A r \in Subs(o) \cup {Main(o)} :
       status'[r] = status[r] /\ result'[r] = result[r] /\ reply'[r] = reply[r]
  /\ \A r \in Subs(o) :
       /\ r \in running' <=> r \in running
       /\ \A v \in Final : <<r, v>> \in notes' <=> <<r, v>> \in notes
       /\ r \in dropped => r \in dropped'
  /\ \/ pc'[Agent] = pc[Agent] /\ req'[Agent] = req[Agent] /\ cnt'[Agent] = cnt[Agent]
     \/ \A r \in Subs(o) : ~InAgent(r) /\ ~InAgent(r)'

(* A step of the thread of an operation. *)
OwnStep(o) ==
  /\ \A t \in Threads \ {o} : pc'[t] = pc[t] /\ req'[t] = req[t] /\ cnt'[t] = cnt[t]
  /\ \A p \in Ops \ {o} :
       /\ pending'[p] = pending[p]
       /\ \A r \in Subs(p) \cup {Main(p)} :
            status'[r] = status[r] /\ result'[r] = result[r] /\ reply'[r] = reply[r]
  /\ \A r \in Requests : reply'[r] = "sent" => reply[r] = "sent" \/ r \in Subs(o)
  /\ running' = running /\ notes' = notes /\ dropped \subseteq dropped'

-----------------------------------------------------------------------------
(* Requests of different operations, and the main request and the calls of  *)
(* one operation, are different.                                           *)
LEMMA Keys ==
  /\ \A o \in Ops : Kind[o] \in Kinds /\ Planned[Kind[o]] \in 1 .. 3
  /\ \A o \in Ops : Main(o) \in Requests /\ Main(o)[1] = o /\ Main(o) # NULL /\ Main(o)[2] = 0
  /\ \A o \in Ops : \A r \in Subs(o) :
       /\ r \in Requests /\ r # NULL /\ r[1] = o /\ r[2] \in 1 .. Planned[Kind[o]]
       /\ r = <<o, r[2]>>
       /\ \A p \in Ops : r # Main(p) /\ (r \in Subs(p) => p = o)
  /\ \A o \in Ops, i \in 1 .. 3 : i \in 1 .. Planned[Kind[o]] => <<o, i>> \in Subs(o)
  /\ \A o, p \in Ops : Main(o) = Main(p) => o = p
  /\ \A o \in Ops : o # Agent
  <1>1. \A o \in Ops : Kind[o] \in Kinds
    BY RequestsAssumption
  <1>2. \A o \in Ops : Planned[Kind[o]] \in 1 .. 3
    BY <1>1 DEF Kinds, Planned
  <1> QED BY <1>1, <1>2, NullAssumption, RequestsAssumption DEF Main, Subs, Requests

(* The first call of an operation, and the one after a call.                *)
LEMMA CallKeys ==
  ASSUME NEW o \in Ops, NEW i \in 1 .. Planned[Kind[o]]
  PROVE  /\ <<o, i>> \in Subs(o) /\ <<o, i>> \in Requests /\ <<o, i>>[2] = i
         /\ 1 \in 1 .. Planned[Kind[o]]
         /\ \A r \in Subs(o) : r = <<o, i>> <=> r[2] = i
  <1>1. Planned[Kind[o]] \in 1 .. 3
    BY Keys
  <1>2. <<o, i>> \in Subs(o)
    BY DEF Subs
  <1>3. \A r \in Subs(o) : r = <<o, r[2]>> /\ r \in Requests
    BY Keys
  <1> QED BY <1>1, <1>2, <1>3

(* The first call of an operation has number 1, the rest come after it.     *)
LEMMA FirstCall ==
  ASSUME NEW o \in Ops
  PROVE  /\ <<o, 1>> \in Subs(o) /\ <<o, 1>> \in Requests /\ <<o, 1>>[2] = 1
         /\ \A r \in Subs(o) : r # <<o, 1>> => r[2] > 1
  <1>1. 1 \in 1 .. Planned[Kind[o]]
    BY Keys
  <1>2. <<o, 1>> \in Subs(o) /\ <<o, 1>> \in Requests /\ <<o, 1>>[2] = 1
    BY <1>1, CallKeys
  <1>3. \A r \in Subs(o) : r[2] = 1 => r = <<o, 1>>
    BY <1>1, CallKeys
  <1>4. \A r \in Subs(o) : r[2] \in 1 .. Planned[Kind[o]]
    BY Keys
  <1>5. Planned[Kind[o]] \in 1 .. 3
    BY Keys
  <1> QED BY <1>2, <1>3, <1>4, <1>5

(* A main request is opened with the number of its calls. *)
LEMMA PendingIsPlanned ==
  \A o \in Ops : HasMain(o) => Pending[Kind[o]] = Planned[Kind[o]]
  BY RequestsAssumption DEF HasMain, Kinds, Pending, Planned

(* An operation has as many calls as its kind plans.                        *)
LEMMA SubsFinite ==
  ASSUME NEW o \in Ops
  PROVE  IsFiniteSet(Subs(o)) /\ Cardinality(Subs(o)) = Planned[Kind[o]]
  <1> DEFINE n == Planned[Kind[o]]
             f == [i \in 1 .. n |-> <<o, i>>]
  <1>1. n \in 1 .. 3
    BY Keys
  <1>2. f \in Bijection(1 .. n, Subs(o))
    BY <1>1 DEF Bijection, Injection, Surjection, Subs, IsInjective
  <1>3. IsFiniteSet(1 .. n) /\ Cardinality(1 .. n) = n
    BY <1>1, FS_Interval
  <1>4. ExistsBijection(1 .. n, Subs(o))
    BY <1>2 DEF ExistsBijection
  <1> QED BY <1>3, <1>4, FS_Bijection

(* So any set of its calls is finite, and counts no more than that.         *)
LEMMA SomeSubs ==
  ASSUME NEW o \in Ops, NEW S, S \subseteq Subs(o)
  PROVE  /\ IsFiniteSet(S)
         /\ Cardinality(S) \in Nat /\ Cardinality(S) <= Planned[Kind[o]]
         /\ Cardinality(S) = 0 <=> S = {}
  <1>1. IsFiniteSet(S) /\ Cardinality(S) <= Planned[Kind[o]]
    BY SubsFinite, FS_Subset
  <1>2. Cardinality(S) \in Nat
    BY <1>1, FS_CardinalityType
  <1> QED BY <1>1, <1>2, FS_EmptySet

(* Nothing is none of the statuses and results.                             *)
LEMMA NullDiffers == NULL \notin {"PENDING", "COMPLETED", "sent", "RUNNING", "SUCCESS", "ERROR"}
  BY NullAssumption DEF Results, Final

(* No operation has begun and no row is there.                              *)
LEMMA InitInv == Init => IInv
  <1> SUFFICES ASSUME Init PROVE IInv
    OBVIOUS
  <1> USE Keys DEF Init
  <1>1. TypeOK
    BY RequestsAssumption DEF TypeOK, Threads, Labels
  <1>2. AgentPlace
    BY DEF AgentPlace, Threads
  <1>4. Origin
    BY NullDiffers DEF Origin, Noted
  <1>3. ASSUME NEW o \in Ops PROVE OpInv(o)
    <2>1. Place(o) BY <1>3, RequestsAssumption DEF Place, Threads, Working, OnCall, AtCounter
    <2>2. InOrder(o) BY <1>3, RequestsAssumption DEF InOrder, Threads, Working, AtCounter
    <2>3. AtCall(o) BY <1>3 DEF AtCall, Threads
    <2>4. AtRefusal(o) BY <1>3 DEF AtRefusal, Threads
    <2>5. Passing(o) BY <1>3, NullAssumption DEF Passing, Handed, Passed, Noted, InAgent, Threads
    <2>6. Owed(o) BY <1>3, NullAssumption DEF Owed
    <2>7. Counting(o) BY <1>3 DEF Counting, Threads
    <2> QED BY <2>1, <2>2, <2>3, <2>4, <2>5, <2>6, <2>7 DEF OpInv
  <1> QED BY <1>1, <1>2, <1>3, <1>4 DEF IInv

-----------------------------------------------------------------------------
(* What is due depends only on which calls are completed and on who is at   *)
(* the counter.                                                            *)
LEMMA DueUnchanged ==
  ASSUME NEW o \in Ops,
         \A r \in Subs(o) : status'[r] = "COMPLETED" <=> status[r] = "COMPLETED",
         \A t \in {o, Agent} : pc'[t] \in AtCounter /\ Op(t)' = o <=> pc[t] \in AtCounter /\ Op(t) = o
  PROVE  Due(o)' = Due(o) /\ OpenCalls(o)' = OpenCalls(o)
  <1>1. OpenCalls(o)' = OpenCalls(o)
    BY DEF OpenCalls, Subs
  <1>2. \A t \in {o, Agent} : Turn(t, o)' = Turn(t, o)
    BY DEF Turn
  <1> QED BY <1>1, <1>2 DEF Due

(* A step that does not touch an operation keeps what is known of it.       *)
LEMMA Frame ==
  ASSUME IInv, AgentPlace', NEW o \in Ops, Untouched(o)
  PROVE  OpInv(o)'
  <1> USE Keys
  <1>0. OpInv(o) /\ AgentPlace
    BY DEF IInv
  <1>1. \A r \in Subs(o) : /\ Noted(r)' <=> Noted(r)
                           /\ InAgent(r)' <=> InAgent(r)
                           /\ Passed(r)' <=> Passed(r)
    BY DEF Untouched, Noted, InAgent, Passed
  <1>2. Place(o)' BY <1>0 DEF OpInv, Place, Untouched, Working, OnCall, AtCounter
  <1>3. InOrder(o)' BY <1>0 DEF OpInv, Place, InOrder, Untouched, Working, OnCall, AtCounter
  <1>4. AtCall(o)' BY <1>0 DEF OpInv, AtCall, Untouched
  <1>5. AtRefusal(o)' BY <1>0 DEF OpInv, AtRefusal, Untouched
  <1>6. Passing(o)' BY <1>0, <1>1 DEF OpInv, Passing, Handed, Untouched, InAgent
  <1>7. Owed(o)' BY <1>0, <1>1 DEF OpInv, Owed, Untouched
  <1>8. Counting(o)'
    <2>1. \A t \in {o, Agent} : pc'[t] \in AtCounter /\ Op(t)' = o <=> pc[t] \in AtCounter /\ Op(t) = o
      BY <1>0 DEF Untouched, AgentPlace, Op, InAgent, AtCounter
    <2>2. Due(o)' = Due(o) /\ OpenCalls(o)' = OpenCalls(o)
      BY <2>1, DueUnchanged DEF Untouched
    <2>3. \A t \in {o, Agent} : pc'[t] = "save_main" /\ Op(t)' = o =>
            pc[t] = "save_main" /\ Op(t) = o /\ cnt'[t] = cnt[t]
      BY <1>0 DEF Untouched, AgentPlace, Op, InAgent, AtCounter
    <2> QED BY <1>0, <2>2, <2>3 DEF OpInv, Counting, Untouched
  <1> QED BY <1>2, <1>3, <1>4, <1>5, <1>6, <1>7, <1>8 DEF OpInv

(* A step of a thread of an operation concerns no other operation.          *)
LEMMA OwnStepInv ==
  ASSUME IInv, TypeOK', NEW o \in Ops, OwnStep(o), OpInv(o)'
  PROVE  IInv'
  <1>1. AgentPlace'
    BY Keys DEF IInv, AgentPlace, OwnStep, Threads, HasMain, Subs
  <1>2. ASSUME NEW p \in Ops, p # o PROVE OpInv(p)'
    <2>1. Untouched(p)
      BY <1>2, Keys DEF OwnStep, Untouched, Threads
    <2> QED BY <1>1, <2>1, Frame
  <1>3. Origin'
    BY DEF IInv, Origin, OwnStep, Noted, Subs
  <1> QED BY <1>1, <1>2, <1>3 DEF IInv

(* An operation is accepted: nothing is counted down before.                *)
LEMMA BeginInv ==
  ASSUME IInv, NEW o \in Ops, Begin(o)
  PROVE  IInv'
  <1> USE Keys DEF board, ghosts, Goto
  <1>0. TypeOK /\ AgentPlace /\ OpInv(o)
    BY DEF IInv
  <1>1. TypeOK'
    BY <1>0, FirstCall, PendingIsPlanned DEF Begin, TypeOK, Threads, Labels
  <1>2. OwnStep(o)
    BY <1>0 DEF Begin, TypeOK, OwnStep, Threads
  <1>3. /\ pc[o] = "start" /\ pc'[o] = "lookup" /\ req'[o] = <<o, 1>>
        /\ \A r \in Subs(o) : status'[r] = status[r]
    BY <1>0 DEF Begin, TypeOK, Threads
  <1>4. HasMain(o) => status'[Main(o)] = "PENDING" /\ pending'[o] = Planned[Kind[o]]
    BY <1>0, PendingIsPlanned DEF Begin, TypeOK, Threads
  <1>5. UNCHANGED <<result, reply, running, notes, dropped>>
    BY DEF Begin
  <1>6. \A r \in Subs(o) : status[r] = NULL /\ ~Passed(r) /\ reply[r] = NULL
    BY <1>0, <1>3, NullDiffers DEF OpInv, Place, InOrder, Passing, Handed, Passed, InAgent, AgentPlace, AtCounter
  <1>7. \A r \in Subs(o) : ~Passed(r)'
    BY <1>2, <1>5, <1>6 DEF Passed, Noted, InAgent, OwnStep, Threads
  <1>8. OpInv(o)'
    <2> USE FirstCall, NullDiffers
    <2>1. Place(o)' BY <1>3 DEF Place, Working, OnCall, AtCounter
    <2>2. InOrder(o)' BY <1>3, <1>4, <1>6 DEF InOrder, Working, AtCounter
    <2>3. AtCall(o)' BY <1>3 DEF AtCall, AtCounter
    <2>4. AtRefusal(o)' BY <1>3 DEF AtRefusal
    <2>5. Passing(o)' BY <1>3, <1>5, <1>6, <1>7 DEF Passing, Handed, Passed, Noted
    <2>6. Owed(o)' BY <1>3, <1>6 DEF Owed
    <2>7. Counting(o)'
      <3>1. Turn(o, o)' = 0 /\ Turn(Agent, o)' = 0
        BY <1>0, <1>2, <1>3, <1>7 DEF Turn, Op, AtCounter, OwnStep, Threads, AgentPlace, Passed, InAgent
      <3>2. OpenCalls(o)' \subseteq Subs(o)
        BY DEF OpenCalls, Subs
      <3>3. Due(o)' <= Planned[Kind[o]]
        BY <3>1, <3>2, SomeSubs DEF Due
      <3>4. \A t \in {o, Agent} : ~(pc'[t] = "save_main" /\ Op(t)' = o)
        BY <3>1 DEF Turn, AtCounter
      <3> QED BY <1>4, <3>3, <3>4 DEF Counting, HasMain
    <2> QED BY <2>1, <2>2, <2>3, <2>4, <2>5, <2>6, <2>7 DEF OpInv
  <1> QED BY <1>1, <1>2, <1>8, OwnStepInv

(* What a thread of an operation leaves alone. *)
LEMMA OwnStepKeeps ==
  ASSUME NEW o \in Ops, OwnStep(o)
  PROVE  /\ pc'[Agent] = pc[Agent] /\ req'[Agent] = req[Agent] /\ cnt'[Agent] = cnt[Agent]
         /\ \A r : /\ r \in running' <=> r \in running
                   /\ Noted(r)' <=> Noted(r)
                   /\ InAgent(r)' <=> InAgent(r)
                   /\ Passed(r)' <=> Passed(r)
  BY Keys DEF OwnStep, Threads, Noted, InAgent, Passed

(* A step away from the counter that completes nothing changes nothing due. *)
LEMMA CountingKept ==
  ASSUME IInv, NEW o \in Ops, OwnStep(o), req[o] \in Subs(o),
         pc[o] \notin AtCounter, pc'[o] \notin AtCounter, pending'[o] = pending[o],
         \A r \in Subs(o) \cup {Main(o)} : status'[r] = "COMPLETED" <=> status[r] = "COMPLETED"
  PROVE  Counting(o)'
  <1>1. Counting(o)
    BY DEF IInv, OpInv
  <1>2. Due(o)' = Due(o) /\ OpenCalls(o)' = OpenCalls(o)
    BY DueUnchanged, OwnStepKeeps DEF Op
  <1> QED BY <1>1, <1>2, OwnStepKeeps DEF Counting, AtCounter, HasMain, Op

(* An operation that finds its board offline makes no call; only a          *)
(* disabling has written its main row by then.                              *)
LEMMA BeginOfflineInv ==
  ASSUME IInv, NEW o \in Ops, BeginOffline(o)
  PROVE  IInv'
  <1> USE Keys DEF board, ghosts, Goto
  <1>0. TypeOK /\ AgentPlace /\ OpInv(o)
    BY DEF IInv
  <1>1. TypeOK'
    <2>1. status' \in [Requests -> {NULL, "PENDING", "COMPLETED"}]
      BY <1>0 DEF BeginOffline, TypeOK
    <2>2. pending' \in [Ops -> 0 .. 3]
      <3>1. Kind[o] = "disable" => Pending[Kind[o]] \in 0 .. 3
        BY DEF Pending
      <3> QED BY <1>0, <3>1 DEF BeginOffline, TypeOK
    <2>3. pc' \in [Threads -> Labels]
      BY <1>0 DEF BeginOffline, TypeOK, Threads, Labels
    <2> QED BY <1>0, <2>1, <2>2, <2>3 DEF BeginOffline, TypeOK
  <1>2. OwnStep(o)
    BY <1>0 DEF BeginOffline, TypeOK, OwnStep, Threads
  <1>3. /\ pc[o] = "start" /\ pc'[o] = "done" /\ UNCHANGED <<req, reply, result, dropped>>
        /\ \A r \in Subs(o) : status'[r] = status[r]
    BY <1>0 DEF BeginOffline, TypeOK, Threads
  <1>4. req[o] = NULL /\ \A r \in Subs(o) : status[r] = NULL
    BY <1>0, <1>3 DEF OpInv, Place, InOrder
  <1>5. OpInv(o)'
    <2>1. Place(o)' BY <1>3, <1>4 DEF Place, Working, OnCall, AtCounter
    <2>2. InOrder(o)' BY <1>3, <1>4 DEF InOrder, Working, AtCounter
    <2>3. AtCall(o)' BY <1>3, <1>4 DEF AtCall
    <2>4. AtRefusal(o)' BY <1>3, <1>4 DEF AtRefusal
    <2>5. Passing(o)' BY <1>0, <1>2, <1>3, <1>4, OwnStepKeeps DEF OpInv, Passing, Handed, OwnStep
    <2>6. Owed(o)' BY <1>3, <1>4, NullDiffers DEF Owed
    <2>7. Counting(o)' BY <1>3, <1>4 DEF Counting
    <2> QED BY <2>1, <2>2, <2>3, <2>4, <2>5, <2>6, <2>7 DEF OpInv
  <1> QED BY <1>1, <1>2, <1>5, OwnStepInv

(* A refusal opens the main request without a call under it.                *)
LEMMA RefuseInv ==
  ASSUME IInv, NEW o \in Ops, Refuse(o)
  PROVE  IInv'
  <1> USE Keys DEF board, ghosts, Goto
  <1>0. TypeOK /\ AgentPlace /\ OpInv(o)
    BY DEF IInv
  <1>1. TypeOK'
    BY <1>0 DEF Refuse, TypeOK, Threads, Labels, Results, Final
  <1>2. OwnStep(o)
    BY <1>0 DEF Refuse, TypeOK, OwnStep, Threads
  <1>3. /\ pc[o] = "start" /\ pc'[o] = "new_res" /\ UNCHANGED <<result, dropped, notes>>
        /\ req'[o] = Main(o) /\ status'[Main(o)] = "PENDING" /\ reply'[Main(o)] = "SUCCESS"
        /\ \A r \in Subs(o) : status'[r] = status[r] /\ reply'[r] = reply[r]
    BY <1>0 DEF Refuse, TypeOK, Threads
  <1>4. req[o] = NULL /\ \A r \in Subs(o) : status[r] = NULL
    BY <1>0, <1>3 DEF OpInv, Place, InOrder
  <1>5. OpInv(o)'
    <2>1. Place(o)' BY <1>3 DEF Place, Working, OnCall, AtCounter
    <2>2. InOrder(o)' BY <1>3, <1>4, NullDiffers DEF InOrder, Working, AtCounter
    <2>3. AtCall(o)' BY <1>3 DEF AtCall
    <2>4. AtRefusal(o)' BY <1>3 DEF AtRefusal, Final
    <2>5. Passing(o)' BY <1>0, <1>2, <1>3, <1>4, OwnStepKeeps DEF OpInv, Passing, Handed
    <2>6. Owed(o)' BY <1>3, <1>4, NullDiffers DEF Owed
    <2>7. Counting(o)' BY <1>3 DEF Counting
    <2> QED BY <2>1, <2>2, <2>3, <2>4, <2>5, <2>6, <2>7 DEF OpInv
  <1> QED BY <1>1, <1>2, <1>5, OwnStepInv

(* The next call is made: it was not, and is PENDING from now on.           *)
LEMMA NewReqInv ==
  ASSUME IInv, NEW o \in Ops, NewReq(o)
  PROVE  IInv'
  <1> USE Keys, NullDiffers DEF board, ghosts, Goto
  <1>0. TypeOK /\ AgentPlace /\ OpInv(o)
    BY DEF IInv
  <1>a. pc[o] = "lookup" /\ req[o] \in Subs(o) /\ status[req[o]] = NULL /\ reply[req[o]] = NULL
    BY <1>0 DEF NewReq, OpInv, Place, InOrder, Passing, Handed, OnCall
  <1>1. TypeOK'
    BY <1>0, <1>a DEF NewReq, TypeOK, Threads, Labels
  <1>2. OwnStep(o)
    BY <1>0, <1>a DEF NewReq, TypeOK, OwnStep, Threads
  <1>3. /\ pc'[o] = "new_res" /\ UNCHANGED <<req, result, reply, pending, dropped, notes>>
        /\ status' = [status EXCEPT ![req[o]] = "PENDING"]
    BY <1>0 DEF NewReq, TypeOK, Threads
  <1>4. /\ status'[req[o]] = "PENDING"
        /\ \A r \in Requests : r # req[o] => status'[r] = status[r]
    BY <1>0, <1>a, <1>3 DEF TypeOK
  <1>5. OpInv(o)'
    <2>1. Place(o)' BY <1>a, <1>3 DEF Place, Working, OnCall, AtCounter
    <2>2. InOrder(o)' BY <1>0, <1>a, <1>3, <1>4 DEF OpInv, InOrder, Working, AtCounter
    <2>3. AtCall(o)' BY <1>a, <1>3, <1>4 DEF AtCall, AtCounter
    <2>4. AtRefusal(o)' BY <1>a, <1>3 DEF AtRefusal
    <2>5. Passing(o)' BY <1>0, <1>2, <1>a, <1>3, <1>4, OwnStepKeeps DEF OpInv, Passing, Handed, Passed, InAgent, AgentPlace
    <2>6. Owed(o)' BY <1>0, <1>2, <1>a, <1>3, <1>4, OwnStepKeeps DEF OpInv, Owed
    <2>7. Counting(o)' BY <1>2, <1>a, <1>3, <1>4, CountingKept DEF AtCounter
    <2> QED BY <2>1, <2>2, <2>3, <2>4, <2>5, <2>6, <2>7 DEF OpInv
  <1> QED BY <1>1, <1>2, <1>5, OwnStepInv

(* A call that the operation does not get to has no row.                    *)
LEMMA GiveUpInv ==
  ASSUME IInv, NEW o \in Ops, GiveUp(o)
  PROVE  IInv'
  <1> USE Keys, NullDiffers DEF board, tables, ghosts, Goto
  <1>0. TypeOK /\ AgentPlace /\ OpInv(o)
    BY DEF IInv
  <1>a. pc[o] = "lookup" /\ req[o] \in Subs(o) /\ status[req[o]] = NULL
    BY <1>0 DEF GiveUp, OpInv, Place, InOrder, OnCall
  <1>1. TypeOK'
    BY <1>0 DEF GiveUp, TypeOK, Threads, Labels
  <1>2. OwnStep(o)
    BY <1>0 DEF GiveUp, TypeOK, OwnStep, Threads
  <1>3. /\ pc'[o] = "done" /\ UNCHANGED <<req, status, result, reply, pending, dropped, notes>>
    BY <1>0 DEF GiveUp, TypeOK, Threads
  <1>5. OpInv(o)'
    <2>1. Place(o)' BY <1>a, <1>3 DEF Place, Working, OnCall, AtCounter
    <2>2. InOrder(o)' BY <1>0, <1>a, <1>3 DEF OpInv, InOrder, Working, AtCounter
    <2>3. AtCall(o)' BY <1>3 DEF AtCall, AtCounter
    <2>4. AtRefusal(o)' BY <1>a, <1>3 DEF AtRefusal
    <2>5. Passing(o)' BY <1>0, <1>2, <1>a, <1>3, OwnStepKeeps DEF OpInv, Passing, Handed
    <2>6. Owed(o)' BY <1>0, <1>2, <1>a, <1>3, OwnStepKeeps DEF OpInv, Owed
    <2>7. Counting(o)' BY <1>2, <1>a, <1>3, CountingKept DEF AtCounter
    <2> QED BY <2>1, <2>2, <2>3, <2>4, <2>5, <2>6, <2>7 DEF OpInv
  <1> QED BY <1>1, <1>2, <1>5, OwnStepInv

(* The result of a call starts as RUNNING; a call is not recorded yet.      *)
LEMMA NewResInv ==
  ASSUME IInv, NEW o \in Ops, NewRes(o)
  PROVE  IInv'
  <1> USE Keys, NullDiffers DEF board, ghosts, Goto
  <1>0. TypeOK /\ AgentPlace /\ OpInv(o)
    BY DEF IInv
  <1>a. pc[o] = "new_res" /\ (req[o] = Main(o) \/ req[o] \in Subs(o)) /\ req[o] \in Requests
    BY <1>0 DEF NewRes, OpInv, Place, Working
  <1>1. TypeOK'
    BY <1>0, <1>a DEF NewRes, TypeOK, Threads, Labels, Results
  <1>2. OwnStep(o)
    BY <1>0, <1>a DEF NewRes, TypeOK, OwnStep, Threads
  <1>3. /\ pc'[o] = IF req[o] = Main(o) THEN "save_res" ELSE "call"
        /\ UNCHANGED <<req, status, reply, pending, dropped, notes>>
        /\ \A r \in Requests : r # req[o] => result'[r] = result[r]
    BY <1>0, <1>a DEF NewRes, TypeOK, Threads
  <1>5. OpInv(o)'
    <2>1. Place(o)' BY <1>a, <1>3 DEF Place, Working, OnCall, AtCounter
    <2>2. InOrder(o)' BY <1>0, <1>a, <1>3 DEF OpInv, InOrder, Working, AtCounter
    <2>3. AtCall(o)' BY <1>0, <1>a, <1>3 DEF OpInv, AtCall, AtCounter
    <2>4. AtRefusal(o)' BY <1>0, <1>a, <1>3 DEF OpInv, AtRefusal
    <2>5. Passing(o)' BY <1>0, <1>2, <1>a, <1>3, OwnStepKeeps DEF OpInv, AtCall, Passing, Handed, Passed
    <2>6. Owed(o)' BY <1>0, <1>2, <1>a, <1>3, OwnStepKeeps DEF OpInv, Owed
    <2>7. Counting(o)'
      <3>1. CASE req[o] \in Subs(o) BY <3>1, <1>2, <1>a, <1>3, CountingKept DEF AtCounter
      <3>2. CASE req[o] = Main(o) BY <3>2, <1>3 DEF Counting
      <3> QED BY <1>a, <3>1, <3>2
    <2> QED BY <2>1, <2>2, <2>3, <2>4, <2>5, <2>6, <2>7 DEF OpInv
  <1> QED BY <1>1, <1>2, <1>5, OwnStepInv

(* The call goes out to the board when its rows are there.                  *)
LEMMA CallInv ==
  ASSUME IInv, NEW o \in Ops, Call(o)
  PROVE  IInv'
  <1> USE Keys, NullDiffers DEF tables, ghosts, Goto
  <1>0. TypeOK /\ AgentPlace /\ OpInv(o)
    BY DEF IInv
  <1>a. pc[o] = "call" /\ req[o] \in Subs(o) /\ reply[req[o]] = NULL /\ status[req[o]] = "PENDING"
    BY <1>0 DEF Call, OpInv, Place, AtCall, OnCall
  <1>1. TypeOK'
    BY <1>0, <1>a DEF Call, TypeOK, Threads, Labels
  <1>2. OwnStep(o)
    BY <1>0, <1>a DEF Call, TypeOK, OwnStep, Threads
  <1>3. /\ pc'[o] = "wait" /\ UNCHANGED <<req, status, result, pending, dropped, notes>>
        /\ reply'[req[o]] = "sent"
        /\ \A r \in Requests : r # req[o] => reply'[r] = reply[r]
    BY <1>0, <1>a DEF Call, TypeOK, Threads
  <1>5. OpInv(o)'
    <2>1. Place(o)' BY <1>a, <1>3 DEF Place, Working, OnCall, AtCounter
    <2>2. InOrder(o)' BY <1>0, <1>a, <1>3 DEF OpInv, InOrder, Working, AtCounter
    <2>3. AtCall(o)' BY <1>a, <1>3 DEF AtCall, AtCounter, Final
    <2>4. AtRefusal(o)' BY <1>a, <1>3 DEF AtRefusal
    <2>5. Passing(o)' BY <1>0, <1>2, <1>a, <1>3, OwnStepKeeps DEF OpInv, Passing, Handed
    <2>6. Owed(o)' BY <1>0, <1>2, <1>a, <1>3, OwnStepKeeps DEF OpInv, Owed
    <2>7. Counting(o)' BY <1>2, <1>a, <1>3, CountingKept DEF AtCounter
    <2> QED BY <2>1, <2>2, <2>3, <2>4, <2>5, <2>6, <2>7 DEF OpInv
  <1> QED BY <1>1, <1>2, <1>5, OwnStepInv

(* A thread leaves a call answered RUNNING to those it was passed on to.    *)
LEMMA AnsweredInv ==
  ASSUME IInv, NEW o \in Ops, Answered(o)
  PROVE  IInv'
  <1> USE Keys, NullDiffers DEF board, tables, ghosts, Goto
  <1>0. TypeOK /\ AgentPlace /\ OpInv(o)
    BY DEF IInv
  <1>a. pc[o] = "wait" /\ req[o] \in Subs(o) /\ reply[req[o]] \in Results
    BY <1>0 DEF Answered, OpInv, Place, OnCall
  <1>1. TypeOK'
    BY <1>0 DEF Answered, TypeOK, Threads, Labels
  <1>2. OwnStep(o)
    BY <1>0 DEF Answered, TypeOK, OwnStep, Threads
  <1>3. /\ pc'[o] = IF reply[req[o]] = "RUNNING" THEN "next" ELSE "save_res"
        /\ UNCHANGED <<req, status, result, reply, pending, dropped, notes>>
    BY <1>0 DEF Answered, TypeOK, Threads
  <1>5. OpInv(o)'
    <2>1. Place(o)' BY <1>a, <1>3 DEF Place, Working, OnCall, AtCounter
    <2>2. InOrder(o)' BY <1>0, <1>a, <1>3 DEF OpInv, InOrder, Working, AtCounter
    <2>3. AtCall(o)' BY <1>0, <1>a, <1>3 DEF OpInv, AtCall, AtCounter, Results, Final
    <2>4. AtRefusal(o)' BY <1>a, <1>3 DEF AtRefusal
    <2>5. Passing(o)'
      <3>1. reply[req[o]] # NULL
        BY <1>0, <1>a DEF OpInv, AtCall
      <3>2. Passed(req[o]) => pc'[o] = "next"
        BY <1>0, <1>a, <1>3, <3>1 DEF OpInv, Passing, Handed
      <3> QED BY <1>0, <1>2, <1>a, <1>3, <3>2, OwnStepKeeps DEF OpInv, Passing, Handed
    <2>6. Owed(o)' BY <1>0, <1>2, <1>a, <1>3, OwnStepKeeps DEF OpInv, Owed
    <2>7. Counting(o)' BY <1>2, <1>a, <1>3, CountingKept DEF AtCounter
    <2> QED BY <2>1, <2>2, <2>3, <2>4, <2>5, <2>6, <2>7 DEF OpInv
  <1> QED BY <1>1, <1>2, <1>5, OwnStepInv

(* The RPC raises: the rows of the call stay as they are, and the story     *)
(* tells.                                                                   *)
LEMMA CallRaisesInv ==
  ASSUME IInv, NEW o \in Ops, CallRaises(o)
  PROVE  IInv'
  <1> USE Keys, NullDiffers DEF board, tables, Goto
  <1>0. TypeOK /\ AgentPlace /\ OpInv(o)
    BY DEF IInv
  <1>a. pc[o] = "wait" /\ req[o] \in Subs(o)
    BY <1>0 DEF CallRaises, OpInv, Place, OnCall
  <1>1. TypeOK'
    BY <1>0, <1>a DEF CallRaises, TypeOK, Threads, Labels
  <1>2. OwnStep(o)
    BY <1>0 DEF CallRaises, TypeOK, OwnStep, Threads
  <1>3. /\ pc'[o] = "done" /\ UNCHANGED <<req, status, result, reply, pending, notes>>
        /\ req[o] \in dropped' /\ \A r \in dropped : r \in dropped'
    BY <1>0 DEF CallRaises, TypeOK, Threads
  <1>5. OpInv(o)'
    <2>1. Place(o)' BY <1>a, <1>3 DEF Place, Working, OnCall, AtCounter
    <2>2. InOrder(o)' BY <1>0, <1>a, <1>3 DEF OpInv, InOrder, Working, AtCounter
    <2>3. AtCall(o)' BY <1>3 DEF AtCall, AtCounter
    <2>4. AtRefusal(o)' BY <1>a, <1>3 DEF AtRefusal
    <2>5. Passing(o)' BY <1>0, <1>2, <1>a, <1>3, OwnStepKeeps DEF OpInv, Passing, Handed
    <2>6. Owed(o)' BY <1>0, <1>2, <1>a, <1>3, OwnStepKeeps DEF OpInv, Owed
    <2>7. Counting(o)' BY <1>2, <1>a, <1>3, CountingKept DEF AtCounter
    <2> QED BY <2>1, <2>2, <2>3, <2>4, <2>5, <2>6, <2>7 DEF OpInv
  <1> QED BY <1>1, <1>2, <1>5, OwnStepInv

(* The thread writes the result of its call.                                *)
LEMMA SaveResInv ==
  ASSUME IInv, NEW o \in Ops, SaveRes(o)
  PROVE  IInv'
  <1> USE Keys, NullDiffers DEF board, ghosts, Goto
  <1>0. TypeOK /\ AgentPlace /\ OpInv(o)
    BY DEF IInv
  <1>a. /\ pc[o] = "save_res" /\ (req[o] = Main(o) \/ req[o] \in Subs(o)) /\ req[o] \in Requests
        /\ reply[req[o]] \in Final
    BY <1>0 DEF SaveRes, OpInv, Place, AtCall, AtRefusal, Working
  <1>1. TypeOK'
    BY <1>0, <1>a DEF SaveRes, TypeOK, Threads, Labels, Results
  <1>2. OwnStep(o)
    BY <1>0, <1>a DEF SaveRes, TypeOK, OwnStep, Threads
  <1>3. /\ pc'[o] = "save_req" /\ UNCHANGED <<req, status, reply, pending, dropped, notes>>
        /\ result'[req[o]] = reply[req[o]]
        /\ \A r \in Requests : r # req[o] => result'[r] = result[r]
    BY <1>0, <1>a DEF SaveRes, TypeOK, Threads
  <1>5. OpInv(o)'
    <2>1. Place(o)' BY <1>a, <1>3 DEF Place, Working, OnCall, AtCounter
    <2>2. InOrder(o)' BY <1>0, <1>a, <1>3 DEF OpInv, InOrder, Working, AtCounter
    <2>3. AtCall(o)' BY <1>0, <1>a, <1>3 DEF OpInv, AtCall, AtCounter
    <2>4. AtRefusal(o)' BY <1>0, <1>a, <1>3 DEF OpInv, AtRefusal
    <2>5. Passing(o)' BY <1>0, <1>2, <1>a, <1>3, OwnStepKeeps DEF OpInv, Passing, Handed, Passed
    <2>6. Owed(o)' BY <1>0, <1>2, <1>a, <1>3, OwnStepKeeps DEF OpInv, Owed
    <2>7. Counting(o)'
      <3>1. CASE req[o] \in Subs(o) BY <3>1, <1>2, <1>a, <1>3, CountingKept DEF AtCounter
      <3>2. CASE req[o] = Main(o) BY <3>2, <1>3 DEF Counting
      <3> QED BY <1>a, <3>1, <3>2
    <2> QED BY <2>1, <2>2, <2>3, <2>4, <2>5, <2>6, <2>7 DEF OpInv
  <1> QED BY <1>1, <1>2, <1>5, OwnStepInv

(* What the thread leaves behind is completed, or owed by others.           *)
LEMMA NextCallInv ==
  ASSUME IInv, NEW o \in Ops, NextCall(o)
  PROVE  IInv'
  <1> USE Keys, NullDiffers DEF tables, ghosts, Goto
  <1>0. TypeOK /\ AgentPlace /\ OpInv(o)
    BY DEF IInv
  <1>a. pc[o] = "next" /\ (req[o] = Main(o) \/ req[o] \in Subs(o)) /\ req[o] \in Requests
    BY <1>0 DEF NextCall, OpInv, Place, Working
  <1>b. \/ pc'[o] = "done" /\ req' = req
        \/ /\ req[o] \in Subs(o) /\ req[o][2] + 1 \in 1 .. Planned[Kind[o]]
           /\ pc'[o] = "lookup" /\ req' = [req EXCEPT ![o] = <<o, req[o][2] + 1>>]
    BY <1>0, <1>a DEF NextCall, TypeOK, Threads
  <1>c. \/ pc'[o] = "done" /\ req'[o] = req[o] /\ req' = req
        \/ /\ req[o] \in Subs(o) /\ req'[o] \in Subs(o) /\ req'[o][2] = req[o][2] + 1
           /\ req'[o] \in Requests
           /\ pc'[o] = "lookup" /\ req' = [req EXCEPT ![o] = <<o, req[o][2] + 1>>]
    BY <1>0, <1>b, CallKeys DEF TypeOK, Threads
  <1>1. TypeOK'
    <2>1. req' \in [Threads -> Requests \cup {NULL}]
      BY <1>0, <1>c DEF TypeOK, Threads
    <2>2. pc' \in [Threads -> Labels]
      BY <1>0 DEF NextCall, TypeOK, Threads, Labels
    <2>3. reply' \in [Requests -> Results \cup {NULL, "sent"}]
      BY <1>0 DEF NextCall, TypeOK
    <2> QED BY <1>0, <2>1, <2>2, <2>3 DEF NextCall, TypeOK
  <1>2. OwnStep(o)
    BY <1>0, <1>a, <1>b DEF NextCall, TypeOK, OwnStep, Threads
  <1>3. /\ UNCHANGED <<status, result, pending, dropped, notes>>
        /\ reply'[req[o]] = NULL
        /\ \A r \in Requests : r # req[o] => reply'[r] = reply[r]
    BY <1>0, <1>a DEF NextCall, TypeOK
  <1>5. OpInv(o)'
    <2>1. Place(o)' BY <1>0, <1>a, <1>c DEF OpInv, Place, Working, OnCall, AtCounter
    <2>2. InOrder(o)'
      <3>1. CASE pc'[o] = "done"
        BY <1>0, <1>c, <1>3, <3>1 DEF OpInv, InOrder, Working, AtCounter
      <3>2. CASE pc'[o] # "done"
        <4>1. \A r \in Subs(o) : r[2] < req'[o][2] => r[2] < req[o][2] \/ r = req[o]
          BY <1>c, <3>2, CallKeys
        <4>2. \A r \in Subs(o) : r[2] > req[o][2] => status[r] = NULL
          BY <1>0, <1>c, <3>2 DEF OpInv, InOrder
        <4> QED BY <1>0, <1>a, <1>c, <1>3, <3>2, <4>1, <4>2 DEF OpInv, InOrder, Working, AtCounter
      <3> QED BY <3>1, <3>2
    <2>3. AtCall(o)' BY <1>c, <1>3 DEF AtCall, AtCounter
    <2>4. AtRefusal(o)' BY <1>a, <1>c, <1>3 DEF AtRefusal
    <2>5. Passing(o)'
      <3>1. pc'[o] # "done" => status[req'[o]] = NULL
        BY <1>0, <1>c DEF OpInv, InOrder
      <3>2. pc'[o] # "done" => ~Passed(req'[o])
        BY <1>0, <1>c, <3>1 DEF OpInv, Passing, Handed, Passed, InAgent, AgentPlace, AtCounter
      <3> QED BY <1>0, <1>2, <1>a, <1>c, <1>3, <3>2, OwnStepKeeps DEF OpInv, Passing, Handed
    <2>6. Owed(o)' BY <1>0, <1>2, <1>a, <1>c, <1>3, OwnStepKeeps DEF OpInv, Owed
    <2>7. Counting(o)'
      <3>1. CASE req[o] \in Subs(o) BY <3>1, <1>2, <1>a, <1>c, <1>3, CountingKept DEF AtCounter
      <3>2. CASE req[o] = Main(o) BY <3>2, <1>c, <1>3 DEF Counting
      <3> QED BY <1>a, <3>1, <3>2
    <2> QED BY <2>1, <2>2, <2>3, <2>4, <2>5, <2>6, <2>7 DEF OpInv
  <1> QED BY <1>1, <1>2, <1>5, OwnStepInv

-----------------------------------------------------------------------------
(* The counter is the work of two threads: the operation's and the agent's. *)

(* A step of one of them on a call of an operation concerns no other one.   *)
LEMMA HandlerFrame ==
  ASSUME IInv, TypeOK', AgentPlace', NEW o \in Ops, NEW t \in {o, Agent},
         req[t] \in Subs(o), req' = req,
         \A u \in Threads \ {t} : pc'[u] = pc[u] /\ cnt'[u] = cnt[u],
         \A p \in Ops \ {o} : pending'[p] = pending[p],
         \A r \in Requests : r \notin Subs(o) \cup {Main(o)} => status'[r] = status[r],
         UNCHANGED <<result, reply, running, notes, dropped>>, OpInv(o)'
  PROVE  IInv'
  <1>1. ASSUME NEW p \in Ops, p # o PROVE OpInv(p)'
    <2>1. \A r \in Subs(p) \cup {Main(p)} : r \in Requests /\ r \notin Subs(o) \cup {Main(o)}
      BY <1>1, Keys
    <2>2. CASE t = o
      BY <1>1, <2>1, <2>2, Keys, Frame DEF Untouched, Threads
    <2>3. CASE t = Agent
      <3>1. \A r \in Subs(p) : ~InAgent(r) /\ ~InAgent(r)'
        BY <2>1, <2>3 DEF InAgent
      <3> QED BY <1>1, <2>1, <2>3, <3>1, Keys, Frame DEF Untouched, Threads
    <2> QED BY <2>2, <2>3
  <1>2. Origin'
    BY DEF IInv, Origin, Noted, Subs
  <1> QED BY <1>1, <1>2 DEF IInv

(* A thread that completes or counts a call has one that was made.          *)
LEMMA HandlerKeys ==
  ASSUME IInv, NEW o \in Ops, NEW t \in {o, Agent}, req[t] \in Subs(o),
         pc[t] \in {"save_req"} \cup AtCounter
  PROVE  /\ req[o] \in Subs(o) /\ req[t] \in Requests /\ Op(t) = o /\ t \in Threads
         /\ pc[t] = "save_req" => status[req[t]] = "PENDING" /\ result[req[t]] \in Final
         /\ pc[t] \in AtCounter => status[req[t]] = "COMPLETED" /\ HasMain(o)
  <1> USE Keys, NullDiffers
  <1>0. AgentPlace /\ OpInv(o)
    BY DEF IInv
  <1>1. req[t] \in Requests /\ Op(t) = o /\ t \in Threads
    BY DEF Op, Threads
  <1>2. /\ pc[t] = "save_req" => status[req[t]] = "PENDING" /\ result[req[t]] \in Final
        /\ pc[t] \in AtCounter => status[req[t]] = "COMPLETED"
    <2>1. CASE t = o BY <1>0, <2>1 DEF OpInv, AtCall
    <2>2. CASE t = Agent BY <1>0, <2>2 DEF OpInv, Passing, Handed, InAgent, AtCounter
    <2> QED BY <2>1, <2>2
  <1>3. pc[t] \in AtCounter => HasMain(o)
    <2>1. CASE t = o BY <1>0, <2>1 DEF OpInv, Place
    <2>2. CASE t = Agent BY <1>0, <2>2 DEF AgentPlace, AtCounter
    <2> QED BY <2>1, <2>2
  <1> QED BY <1>0, <1>1, <1>2, <1>3 DEF OpInv, InOrder, AtCounter

(* A call is completed: there is one open call less, and one more thread at *)
(* the counter.                                                            *)
LEMMA SaveReqInv ==
  ASSUME IInv, NEW o \in Ops, NEW t \in {o, Agent}, req[t] \in Subs(o), SaveReq(t)
  PROVE  IInv'
  <1> USE Keys, NullDiffers DEF board, ghosts, Goto
  <1> DEFINE r == req[t]
  <1>0. TypeOK /\ AgentPlace /\ OpInv(o)
    BY DEF IInv
  <1>a. /\ pc[t] = "save_req" /\ status[r] = "PENDING" /\ result[r] \in Final
        /\ req[o] \in Subs(o) /\ r \in Requests /\ Op(t) = o /\ t \in Threads
    BY HandlerKeys DEF SaveReq
  <1>1. TypeOK'
    BY <1>0, <1>a DEF SaveReq, AfterReq, Saved, TypeOK, Labels
  <1>2. /\ pc' = [pc EXCEPT ![t] = IF HasMain(o) THEN "read_main" ELSE Saved(t)]
        /\ UNCHANGED <<req, result, reply, pending, running, notes, cnt, dropped>>
    BY <1>a DEF SaveReq, AfterReq
  <1>3. /\ pc'[t] = IF HasMain(o) THEN "read_main" ELSE Saved(t)
        /\ \A u \in Threads \ {t} : pc'[u] = pc[u]
    BY <1>0, <1>a, <1>2 DEF TypeOK
  <1>4. /\ status'[r] = "COMPLETED"
        /\ \A s \in Requests : s # r => status'[s] = status[s]
    BY <1>0, <1>a DEF SaveReq, TypeOK
  <1>5. AgentPlace'
    BY <1>0, <1>2, <1>3 DEF AgentPlace, AtCounter, Saved, Threads, HasMain, Subs
  <1>6. \A s \in Subs(o) : s # r => (Passed(s)' <=> Passed(s)) /\ (InAgent(s)' <=> InAgent(s))
    BY <1>2, <1>3 DEF Passed, InAgent, Noted, Threads
  <1>7. OpInv(o)'
    <2>1. Place(o)'
      BY <1>0, <1>2, <1>3 DEF OpInv, Place, Working, OnCall, AtCounter, Saved, Threads
    <2>2. InOrder(o)'
      BY <1>0, <1>a, <1>2, <1>3, <1>4 DEF OpInv, Place, InOrder, Working, AtCounter, Saved, Threads
    <2>3. AtCall(o)'
      <3>1. CASE t = o
        BY <1>0, <1>a, <1>2, <1>3, <1>4, <3>1 DEF OpInv, AtCall, AtCounter, Saved, Results
      <3>2. CASE t = Agent
        <4>1. req[o] = r => pc[o] \in {"wait", "next", "done"} /\ reply[r] \in {NULL, "RUNNING"}
          BY <1>0, <1>a, <3>2 DEF OpInv, Passing, Handed, Passed, InAgent
        <4>2. CASE req[o] = r
          BY <1>0, <1>a, <1>2, <1>3, <1>4, <3>2, <4>1, <4>2 DEF OpInv, AtCall, AtCounter, Threads, Final
        <4>3. CASE req[o] # r
          BY <1>0, <1>a, <1>2, <1>3, <1>4, <3>2, <4>3 DEF OpInv, AtCall, Threads
        <4> QED BY <4>2, <4>3
      <3> QED BY <3>1, <3>2
    <2>4. AtRefusal(o)' BY <1>a, <1>2 DEF AtRefusal
    <2>5. Passing(o)'
      <3>1. Passed(r)' => t = Agent /\ r \notin running /\ ~Noted(r)'
        BY <1>0, <1>a, <1>2, <1>3 DEF OpInv, Passing, Handed, Passed, Noted, InAgent, Threads
      <3>2. InAgent(r)' => t = Agent /\ pc'[Agent] \in AtCounter
        BY <1>2, <1>3, <3>1 DEF InAgent, Passed, Saved, AtCounter
      <3>3. t = Agent => pc'[o] = pc[o] /\ InAgent(r)
        BY <1>a, <1>3 DEF InAgent, Threads
      <3>4. ASSUME NEW s \in Subs(o), s # r
            PROVE  /\ status'[s] = status[s] /\ reply'[s] = reply[s] /\ result'[s] = result[s]
                   /\ Noted(s)' <=> Noted(s)
                   /\ InAgent(s) => pc'[Agent] = pc[Agent]
                   /\ req[o] = s => pc'[o] = pc[o]
        BY <1>2, <1>3, <1>4, <3>4 DEF Noted, InAgent, Threads
      <3>5. \A v, w \in Final : <<r, v>> \in notes /\ <<r, w>> \in notes => v = w
        BY <1>0 DEF OpInv, Passing, Handed
      <3>6. Passed(r)' => reply[r] \in {NULL, "RUNNING"} /\ (req[o] = r => pc'[o] \in {"wait", "next", "done"})
        BY <1>0, <3>1, <3>3 DEF OpInv, Passing, Handed, Passed
      <3>7. ASSUME NEW s \in Subs(o), s # r PROVE Handed(o, s)'
        BY <1>0, <1>2, <1>6, <3>4, <3>7 DEF OpInv, Passing, Handed
      <3>8. reply[r] # "sent"
        BY <1>0, <1>a, <3>3 DEF OpInv, AtCall, Passing, Handed, Passed, Final
      <3>9. Handed(o, r)'
        BY <1>a, <1>2, <1>4, <3>1, <3>2, <3>5, <3>6, <3>8 DEF Handed, Passed, Noted, AtCounter
      <3> QED BY <1>2, <3>7, <3>9 DEF Passing, Subs
    <2>6. Owed(o)' BY <1>0, <1>a, <1>2, <1>3, <1>4, <1>6 DEF OpInv, Owed, Threads
    <2>7. Counting(o)'
      <3>1. CASE ~HasMain(o) BY <3>1 DEF Counting, HasMain
      <3>2. CASE HasMain(o)
        <4>1. OpenCalls(o)' = OpenCalls(o) \ {r} /\ r \in OpenCalls(o)
          BY <1>a, <1>4 DEF OpenCalls, Subs
        <4>2. OpenCalls(o) \subseteq Subs(o)
          BY DEF OpenCalls
        <4>3. Cardinality(OpenCalls(o)') = Cardinality(OpenCalls(o)) - 1 /\ Cardinality(OpenCalls(o)) \in Nat
          BY <4>1, <4>2, SomeSubs, FS_RemoveElement
        <4>4. Turn(t, o)' = 1 /\ Turn(t, o) = 0
          BY <1>a, <1>2, <1>3, <3>2 DEF Turn, Op, AtCounter
        <4>5. \A u \in {o, Agent} : u # t => Turn(u, o)' = Turn(u, o) /\ Turn(u, o) \in {0, 1}
          BY <1>2, <1>3 DEF Turn, Op, Threads
        <4>6. Due(o)' = Due(o)
          BY <4>3, <4>4, <4>5 DEF Due
        <4>7. \A u \in {o, Agent} : pc'[u] = "save_main" /\ Op(u)' = o =>
                pc[u] = "save_main" /\ Op(u) = o /\ cnt'[u] = cnt[u]
          BY <1>2, <1>3, <3>2 DEF Op, Threads
        <4> QED BY <1>0, <1>a, <1>2, <1>4, <4>1, <4>6, <4>7 DEF OpInv, Counting
      <3> QED BY <3>1, <3>2
    <2> QED BY <2>1, <2>2, <2>3, <2>4, <2>5, <2>6, <2>7 DEF OpInv
  <1> QED BY <1>a, <1>1, <1>2, <1>3, <1>4, <1>5, <1>7, HandlerFrame

(* The refusal's own request is completed: it has no counter.               *)
LEMMA SaveRefusalInv ==
  ASSUME IInv, NEW o \in Ops, req[o] = Main(o), SaveReq(o)
  PROVE  IInv'
  <1> USE Keys, NullDiffers DEF board, ghosts, Goto
  <1>0. TypeOK /\ AgentPlace /\ OpInv(o)
    BY DEF IInv
  <1>a. /\ pc[o] = "save_req" /\ Op(o) = o /\ req[o] \notin Subs(o)
        /\ \A r \in Subs(o) : status[r] = NULL
    BY <1>0 DEF SaveReq, OpInv, InOrder, Op
  <1>1. TypeOK'
    BY <1>0, <1>a DEF SaveReq, AfterReq, Saved, TypeOK, Labels, Threads
  <1>2. OwnStep(o)
    BY <1>0 DEF SaveReq, TypeOK, OwnStep, Threads
  <1>3. /\ pc'[o] = "next" /\ UNCHANGED <<req, result, reply, pending, notes, dropped>>
        /\ status'[Main(o)] = "COMPLETED"
        /\ \A r \in Subs(o) : status'[r] = status[r]
    BY <1>0, <1>a DEF SaveReq, AfterReq, Saved, TypeOK, Threads
  <1>4. OpInv(o)'
    <2>1. Place(o)' BY <1>3 DEF Place, Working, OnCall, AtCounter
    <2>2. InOrder(o)' BY <1>0, <1>a, <1>3 DEF OpInv, InOrder, Working, AtCounter
    <2>3. AtCall(o)' BY <1>a, <1>3 DEF AtCall
    <2>4. AtRefusal(o)' BY <1>0, <1>3 DEF OpInv, AtRefusal
    <2>5. Passing(o)' BY <1>0, <1>2, <1>a, <1>3, OwnStepKeeps DEF OpInv, Passing, Handed
    <2>6. Owed(o)' BY <1>a, <1>3 DEF Owed
    <2>7. Counting(o)' BY <1>a, <1>3 DEF Counting
    <2> QED BY <2>1, <2>2, <2>3, <2>4, <2>5, <2>6, <2>7 DEF OpInv
  <1> QED BY <1>1, <1>2, <1>4, OwnStepInv

(* Moves of a thread on a call that is completed already.                   *)
LEMMA CompletedKept ==
  ASSUME IInv, NEW o \in Ops, NEW t \in {o, Agent}, req[t] \in Subs(o), pc[t] \in AtCounter,
         pc'[t] \in {"save_main", Saved(t)},
         \A u \in Threads \ {t} : pc'[u] = pc[u],
         \A r \in Subs(o) : status'[r] = status[r],
         status[Main(o)] # NULL => status'[Main(o)] # NULL,
         UNCHANGED <<req, result, reply, running, notes, dropped>>
  PROVE  /\ AgentPlace' /\ Place(o)' /\ InOrder(o)' /\ AtCall(o)' /\ AtRefusal(o)'
         /\ Passing(o)' /\ Owed(o)'
  <1> USE Keys, NullDiffers
  <1>0. AgentPlace /\ OpInv(o)
    BY DEF IInv
  <1>a. req[o] \in Subs(o) /\ status[req[t]] = "COMPLETED" /\ HasMain(o) /\ t \in Threads
    BY HandlerKeys
  <1>1. AgentPlace'
    BY <1>0, <1>a DEF AgentPlace, AtCounter, Saved, Threads, HasMain, Subs
  <1>2. Place(o)'
    BY <1>0, <1>a DEF OpInv, Place, Working, OnCall, AtCounter, Saved, HasMain, Threads
  <1>3. InOrder(o)'
    BY <1>0, <1>a DEF OpInv, InOrder, Working, AtCounter, Saved, HasMain, Threads
  <1>4. AtCall(o)'
    BY <1>0, <1>a DEF OpInv, AtCall, AtCounter, Saved, Threads, Results
  <1>5. AtRefusal(o)'
    BY <1>a DEF AtRefusal
  <1>6. ASSUME NEW r \in Subs(o) PROVE Handed(o, r)'
    <2>1. InAgent(r)' => InAgent(r) /\ (t = Agent => r = req[t] /\ pc'[Agent] = "save_main")
      BY <1>a DEF InAgent, Saved, AtCounter, Threads
    <2>2. Noted(r)' <=> Noted(r)
      BY DEF Noted
    <2>3. t = o => pc'[Agent] = pc[Agent]
      BY DEF Threads
    <2> QED BY <1>0, <1>6, <1>a, <2>1, <2>2, <2>3 DEF OpInv, Passing, Handed, Passed, AtCounter, Threads
  <1>7. Owed(o)'
    <2>1. \A r \in Subs(o) : status[r] = "PENDING" => r # req[t] /\ (Passed(r)' <=> Passed(r))
      BY <1>a DEF Passed, InAgent, Noted, Threads
    <2> QED BY <1>0, <1>a, <2>1 DEF OpInv, Owed, Threads
  <1> QED BY <1>1, <1>2, <1>3, <1>4, <1>5, <1>6, <1>7 DEF Passing, Subs

(* A thread reads a counter that is no less than what is due.               *)
LEMMA ReadMainInv ==
  ASSUME IInv, NEW o \in Ops, NEW t \in {o, Agent}, req[t] \in Subs(o), ReadMain(t)
  PROVE  IInv'
  <1> USE DEF board, tables, ghosts, Goto
  <1>0. TypeOK /\ AgentPlace /\ OpInv(o)
    BY DEF IInv
  <1>a. /\ pc[t] = "read_main" /\ req[o] \in Subs(o) /\ Op(t) = o /\ t \in Threads /\ HasMain(o)
    BY HandlerKeys DEF ReadMain, AtCounter
  <1>1. TypeOK'
    BY <1>0, <1>a DEF ReadMain, TypeOK, Labels
  <1>2. /\ pc'[t] = "save_main" /\ \A u \in Threads \ {t} : pc'[u] = pc[u] /\ cnt'[u] = cnt[u]
        /\ cnt'[t] = pending[o]
        /\ UNCHANGED <<status, result, pending, req, reply, running, notes, dropped>>
    BY <1>0, <1>a DEF ReadMain, TypeOK
  <1>3. /\ AgentPlace' /\ Place(o)' /\ InOrder(o)' /\ AtCall(o)' /\ AtRefusal(o)'
        /\ Passing(o)' /\ Owed(o)'
    BY <1>a, <1>2, CompletedKept DEF AtCounter
  <1>4. Counting(o)'
    <2>1. Due(o)' = Due(o) /\ OpenCalls(o)' = OpenCalls(o)
      BY <1>a, <1>2, DueUnchanged, Keys DEF AtCounter, Op, Threads
    <2>2. \A u \in {o, Agent} : u # t /\ pc'[u] = "save_main" /\ Op(u)' = o =>
            pc[u] = "save_main" /\ Op(u) = o /\ cnt'[u] = cnt[u]
      BY <1>2 DEF Op, Threads
    <2> QED BY <1>0, <1>a, <1>2, <2>1, <2>2 DEF OpInv, Counting
  <1> QED BY <1>1, <1>2, <1>3, <1>4, HandlerFrame DEF OpInv

(* It writes one less than it has read: as much as is due without it. What  *)
(* another thread has written meanwhile may be lost, which only leaves more.*)
LEMMA SaveMainInv ==
  ASSUME IInv, NEW o \in Ops, NEW t \in {o, Agent}, req[t] \in Subs(o), SaveMain(t)
  PROVE  IInv'
  <1> USE Keys DEF board, Goto
  <1> DEFINE n == cnt[t] - 1
  <1>0. TypeOK /\ AgentPlace /\ OpInv(o)
    BY DEF IInv
  <1>a. /\ pc[t] = "save_main" /\ req[o] \in Subs(o) /\ Op(t) = o /\ t \in Threads /\ HasMain(o)
    BY HandlerKeys DEF SaveMain, AtCounter
  <1>b. OpenCalls(o) \subseteq Subs(o) /\ Cardinality(OpenCalls(o)) \in Nat
        /\ (Cardinality(OpenCalls(o)) = 0 => OpenCalls(o) = {})
    BY SomeSubs DEF OpenCalls
  <1>c. Turn(t, o) = 1 /\ \A u \in {o, Agent} : Turn(u, o) \in {0, 1}
    BY <1>a DEF Turn, AtCounter
  <1>d. Due(o) \in Nat /\ Due(o) >= 1 /\ cnt[t] >= Due(o) /\ cnt[t] \in 0 .. 3 /\ n \in 0 .. 3
    BY <1>0, <1>a, <1>b, <1>c DEF Due, OpInv, Counting, TypeOK
  <1>1. TypeOK'
    <2>1. pending' \in [Ops -> 0 .. 3]
      BY <1>0, <1>a, <1>d DEF SaveMain, TypeOK
    <2>2. status' \in [Requests -> {NULL, "PENDING", "COMPLETED"}]
      BY <1>0, <1>a DEF SaveMain, TypeOK
    <2> QED BY <1>0, <1>a, <2>1, <2>2 DEF SaveMain, TypeOK, Labels, Saved
  <1>2. /\ pc'[t] = Saved(t) /\ \A u \in Threads \ {t} : pc'[u] = pc[u] /\ cnt'[u] = cnt[u]
        /\ pending'[o] = n /\ \A p \in Ops \ {o} : pending'[p] = pending[p]
        /\ UNCHANGED <<result, req, reply, running, notes, dropped>>
    BY <1>0, <1>a DEF SaveMain, TypeOK
  <1>3. /\ \A r \in Requests : r # Main(o) => status'[r] = status[r]
        /\ status'[Main(o)] = IF n = 0 THEN "COMPLETED" ELSE status[Main(o)]
    BY <1>0, <1>a DEF SaveMain, TypeOK, IsLast
  <1>4. /\ AgentPlace' /\ Place(o)' /\ InOrder(o)' /\ AtCall(o)' /\ AtRefusal(o)'
        /\ Passing(o)' /\ Owed(o)'
    BY <1>a, <1>2, <1>3, CompletedKept, NullDiffers DEF AtCounter
  <1>5. Counting(o)'
    <2>1. OpenCalls(o)' = OpenCalls(o)
      BY <1>3 DEF OpenCalls, Subs
    <2>2. Turn(t, o)' = 0
      BY <1>2 DEF Turn, Saved, AtCounter
    <2>3. \A u \in {o, Agent} : u # t => Turn(u, o)' = Turn(u, o)
      BY <1>2 DEF Turn, Op, Threads
    <2>4. Due(o)' = Due(o) - 1
      BY <1>b, <1>c, <2>1, <2>2, <2>3 DEF Due
    <2>5. n = 0 => OpenCalls(o) = {}
      BY <1>b, <1>c, <1>d DEF Due
    <2>6. \A u \in {o, Agent} : pc'[u] = "save_main" /\ Op(u)' = o =>
            pc[u] = "save_main" /\ Op(u) = o /\ cnt'[u] = cnt[u] /\ cnt[u] \in 0 .. 3
      BY <1>0, <1>2 DEF Op, Threads, Saved, TypeOK
    <2> QED BY <1>0, <1>a, <1>d, <1>2, <1>3, <2>1, <2>4, <2>5, <2>6 DEF OpInv, Counting
  <1> QED BY <1>1, <1>2, <1>3, <1>4, <1>5, HandlerFrame DEF OpInv

-----------------------------------------------------------------------------
(* The agent's loop takes up a notification: the call is passed to it.      *)
LEMMA NotifyResultInv ==
  ASSUME IInv, NEW r \in Requests, NEW v \in Final, NotifyResult(r, v)
  PROVE  IInv'
  <1> USE Keys, NullDiffers DEF ghosts, Goto
  <1>0. TypeOK /\ AgentPlace
    BY DEF IInv
  <1>a. Agent \in Threads /\ \A o \in Ops : o \in Threads /\ o # Agent
    BY DEF Threads
  <1>1. TypeOK'
    <2>1. result' \in [Requests -> Results \cup {NULL}] /\ notes' \subseteq Requests \X Final
      BY <1>0, <1>a DEF NotifyResult, TypeOK, Results
    <2>2. pc' \in [Threads -> Labels] /\ req' \in [Threads -> Requests \cup {NULL}]
      BY <1>0, <1>a DEF NotifyResult, TypeOK, Labels
    <2> QED BY <1>0, <2>1, <2>2 DEF NotifyResult, TypeOK
  <1>b. pc[Agent] = "idle" /\ pc'[Agent] = "save_req" /\ \A o \in Ops : pc'[o] = pc[o]
    BY <1>0, <1>a DEF NotifyResult, TypeOK
  <1>c. req'[Agent] = r /\ \A o \in Ops : req'[o] = req[o]
    BY <1>0, <1>a DEF NotifyResult, TypeOK
  <1>d. result'[r] = v /\ \A s \in Requests : s # r => result'[s] = result[s]
    BY <1>0 DEF NotifyResult, TypeOK
  <1>e. /\ <<r, v>> \in notes /\ notes' = notes \ {<<r, v>>}
        /\ UNCHANGED <<status, pending, reply, running, cnt, dropped>>
    BY DEF NotifyResult
  <1>2. /\ pc[Agent] = "idle" /\ pc'[Agent] = "save_req" /\ req'[Agent] = r /\ <<r, v>> \in notes
        /\ \A o \in Ops : pc'[o] = pc[o] /\ req'[o] = req[o]
        /\ result'[r] = v /\ \A s \in Requests : s # r => result'[s] = result[s]
        /\ notes' = notes \ {<<r, v>>}
        /\ UNCHANGED <<status, pending, reply, running, cnt, dropped>>
    BY <1>b, <1>c, <1>d, <1>e
  <1>3. ASSUME NEW o \in Ops PROVE OpInv(o)'
    <2>0. OpInv(o)
      BY DEF IInv
    <2>1. Place(o)' BY <2>0, <1>2 DEF OpInv, Place, Working, OnCall, AtCounter
    <2>2. InOrder(o)' BY <2>0, <1>2 DEF OpInv, InOrder
    <2>3. AtCall(o)'
      <3>1. req[o] \in Subs(o) /\ req[o] = r => pc[o] \in {"wait", "next", "done"}
        BY <2>0, <1>2 DEF OpInv, Passing, Handed, Passed, Noted
      <3> QED BY <2>0, <1>2, <3>1 DEF OpInv, AtCall, AtCounter
    <2>4. AtRefusal(o)' BY <2>0, <1>2 DEF OpInv, AtRefusal
    <2>5. ASSUME NEW s \in Subs(o) PROVE Handed(o, s)' /\ (Passed(s)' <=> Passed(s))
      <3>0. Handed(o, s)
        BY <2>0 DEF OpInv, Passing
      <3>1. CASE s = r
        <4>1. ~Noted(s)' /\ InAgent(s)' /\ Noted(s)
          BY <1>2, <3>0, <3>1 DEF Noted, InAgent, Handed
        <4> QED BY <1>2, <3>0, <3>1, <4>1 DEF Handed, Passed, AtCounter
      <3>2. CASE s # r
        <4>1. ~InAgent(s)' /\ ~InAgent(s)
          BY <1>2, <3>2 DEF InAgent
        <4>2. \A w \in Final : <<s, w>> \in notes' <=> <<s, w>> \in notes
          BY <1>2, <3>2
        <4> QED BY <1>2, <3>0, <3>2, <4>1, <4>2 DEF Handed, Passed, Noted
      <3> QED BY <3>1, <3>2
    <2>6. Passing(o)' BY <2>5 DEF Passing, Subs
    <2>7. Owed(o)' BY <2>0, <1>2, <2>5 DEF OpInv, Owed
    <2>8. Counting(o)'
      <3>1. Due(o)' = Due(o) /\ OpenCalls(o)' = OpenCalls(o)
        BY <1>2, DueUnchanged DEF Op, AtCounter
      <3> QED BY <2>0, <1>2, <3>1 DEF OpInv, Counting, Op
    <2> QED BY <2>1, <2>2, <2>3, <2>4, <2>6, <2>7, <2>8 DEF OpInv
  <1>4. AgentPlace'
    <2>1. \E o \in Ops : r \in Subs(o)
      BY <1>2 DEF IInv, Origin, Noted
    <2> QED BY <1>2, <2>1 DEF AgentPlace, AtCounter, Subs
  <1>5. Origin'
    BY <1>2 DEF IInv, Origin, Noted, Subs
  <1> QED BY <1>1, <1>3, <1>4, <1>5 DEF IInv

-----------------------------------------------------------------------------
(* The board and the crashes. *)

(* The board answers a call it was sent, or passes it on.                   *)
LEMMA AnswerInv ==
  ASSUME IInv, NEW r \in Requests, NEW v \in Results, Answer(r, v)
  PROVE  IInv'
  <1> USE Keys, NullDiffers DEF tables, ghosts
  <1>0. TypeOK /\ AgentPlace /\ Origin
    BY DEF IInv
  <1>1. TypeOK'
    <2>1. reply' \in [Requests -> Results \cup {NULL, "sent"}] /\ running' \subseteq Requests
      BY <1>0 DEF Answer, TypeOK
    <2> QED BY <1>0, <2>1 DEF Answer, TypeOK
  <1>2. /\ reply[r] = "sent" /\ reply'[r] = v
        /\ \A s \in Requests : s # r => reply'[s] = reply[s]
    BY <1>0 DEF Answer, TypeOK
  <1>3. /\ running' = IF v = "RUNNING" THEN running \cup {r} ELSE running
        /\ UNCHANGED <<status, result, pending, notes, pc, req, cnt, dropped>>
    BY DEF Answer
  <1>4. ASSUME NEW o \in Ops PROVE OpInv(o)'
    <2>0. OpInv(o)
      BY DEF IInv
    <2>1. Place(o)' BY <2>0, <1>3 DEF OpInv, Place
    <2>2. InOrder(o)' BY <2>0, <1>3 DEF OpInv, InOrder
    <2>3. AtCall(o)'
      <3>1. CASE req[o] = r
        BY <2>0, <1>2, <1>3, <3>1 DEF OpInv, AtCall, AtCounter, Passing, Handed, Results, Final
      <3>2. CASE req[o] # r
        BY <2>0, <1>2, <1>3, <3>2 DEF OpInv, AtCall
      <3> QED BY <3>1, <3>2
    <2>4. AtRefusal(o)'
      BY <2>0, <1>2, <1>3 DEF OpInv, AtRefusal
    <2>5. ASSUME NEW s \in Subs(o) PROVE Handed(o, s)' /\ (Passed(s) => Passed(s)')
      <3>0. Handed(o, s)
        BY <2>0 DEF OpInv, Passing
      <3>1. CASE s = r
        <4>1. ~Passed(s) /\ status[s] = "PENDING"
          BY <1>2, <3>0, <3>1 DEF Handed
        <4>2. req[o] = s => pc[o] \in {"wait", "done"}
          BY <1>0, <2>0, <1>2, <3>1, <4>1 DEF OpInv, Place, InOrder, AtCall, AtCounter, Final, Results, TypeOK, Threads, Labels
        <4>3. ~Noted(s)' /\ ~InAgent(s)' /\ (s \in running' => v = "RUNNING")
          BY <1>3, <3>1, <4>1 DEF Passed, Noted, InAgent
        <4>4. v # "sent"
          BY DEF Results, Final
        <4> QED BY <1>2, <1>3, <3>0, <3>1, <4>1, <4>2, <4>3, <4>4 DEF Handed, Passed, Noted
      <3>2. CASE s # r
        BY <1>2, <1>3, <3>0, <3>2 DEF Handed, Passed, Noted, InAgent
      <3> QED BY <3>1, <3>2
    <2>6. Passing(o)' BY <2>5 DEF Passing, Subs
    <2>7. Owed(o)'
      <3>1. ASSUME NEW s \in Subs(o) PROVE reply'[s] = "RUNNING" => reply[s] = "RUNNING" \/ Passed(s)'
        BY <1>2, <1>3, <3>1 DEF Passed
      <3> QED BY <2>0, <1>3, <2>5, <3>1 DEF OpInv, Owed, Subs
    <2>8. Counting(o)'
      <3>1. Due(o)' = Due(o) /\ OpenCalls(o)' = OpenCalls(o)
        BY <1>3, DueUnchanged DEF Op
      <3> QED BY <2>0, <1>3, <3>1 DEF OpInv, Counting, Op
    <2> QED BY <2>1, <2>2, <2>3, <2>4, <2>6, <2>7, <2>8 DEF OpInv
  <1>5. AgentPlace'
    BY <1>0, <1>3 DEF AgentPlace, Subs
  <1>6. Origin'
    BY <1>0, <1>2, <1>3 DEF Origin, Noted, Subs, Results, Final
  <1> QED BY <1>1, <1>4, <1>5, <1>6 DEF IInv

(* The board notifies a call: from its hands to the agent's queue.          *)
LEMMA NotifyInv ==
  ASSUME IInv, NEW r \in Requests, NEW v \in Final, Notify(r, v)
  PROVE  IInv'
  <1> USE Keys, NullDiffers DEF tables, ghosts
  <1>0. TypeOK /\ AgentPlace /\ Origin
    BY DEF IInv
  <1>1. TypeOK'
    <2>1. notes' \subseteq Requests \X Final /\ running' \subseteq Requests
      BY <1>0 DEF Notify, TypeOK
    <2> QED BY <1>0, <2>1 DEF Notify, TypeOK
  <1>2. /\ r \in running /\ running' = running \ {r} /\ notes' = notes \cup {<<r, v>>}
        /\ UNCHANGED <<status, result, reply, pending, pc, req, cnt, dropped>>
    BY DEF Notify
  <1>3. ASSUME NEW o \in Ops PROVE OpInv(o)'
    <2>0. OpInv(o)
      BY DEF IInv
    <2>1. Place(o)' BY <2>0, <1>2 DEF OpInv, Place
    <2>2. InOrder(o)' BY <2>0, <1>2 DEF OpInv, InOrder
    <2>3. AtCall(o)' BY <2>0, <1>2 DEF OpInv, AtCall
    <2>4. AtRefusal(o)' BY <2>0, <1>2 DEF OpInv, AtRefusal
    <2>5. ASSUME NEW s \in Subs(o) PROVE Handed(o, s)' /\ (Passed(s)' <=> Passed(s))
      <3>0. Handed(o, s)
        BY <2>0 DEF OpInv, Passing
      <3>1. CASE s = r
        <4>1. Noted(s)' /\ ~Noted(s) /\ ~InAgent(s)' /\ status[s] = "PENDING" /\ Passed(s)
          BY <1>2, <3>0, <3>1 DEF Handed, Noted, InAgent, Passed
        <4>2. \A w \in Final : <<s, w>> \in notes' => w = v
          BY <1>2, <3>1, <4>1 DEF Noted
        <4> QED BY <1>2, <3>0, <3>1, <4>1, <4>2 DEF Handed, Passed
      <3>2. CASE s # r
        <4>1. \A w \in Final : <<s, w>> \in notes' <=> <<s, w>> \in notes
          BY <1>2, <3>2
        <4> QED BY <1>2, <3>0, <3>2, <4>1 DEF Handed, Passed, Noted, InAgent
      <3> QED BY <3>1, <3>2
    <2>6. Passing(o)' BY <2>5 DEF Passing, Subs
    <2>7. Owed(o)' BY <2>0, <1>2, <2>5 DEF OpInv, Owed, Subs
    <2>8. Counting(o)'
      <3>1. Due(o)' = Due(o) /\ OpenCalls(o)' = OpenCalls(o)
        BY <1>2, DueUnchanged DEF Op
      <3> QED BY <2>0, <1>2, <3>1 DEF OpInv, Counting, Op
    <2> QED BY <2>1, <2>2, <2>3, <2>4, <2>6, <2>7, <2>8 DEF OpInv
  <1>4. AgentPlace'
    BY <1>0, <1>2 DEF AgentPlace, Subs
  <1>5. Origin'
    BY <1>0, <1>2 DEF Origin, Noted, Subs
  <1> QED BY <1>1, <1>3, <1>4, <1>5 DEF IInv

(* A thread dies: its call is dropped, and its turn at the counter lost.    *)
LEMMA CrashInv ==
  ASSUME IInv, NEW o \in Ops, Crash(o)
  PROVE  IInv'
  <1> USE Keys, NullDiffers, RequestsAssumption DEF tables, Goto
  <1>0. TypeOK /\ AgentPlace /\ OpInv(o)
    BY DEF IInv
  <1>a. /\ pc[o] \notin {"start", "done", "idle"}
        /\ pc[o] \in AtCounter => Op(o) \in Ops
    BY <1>0 DEF Crash, OpInv, Place, OnCall, Op
  <1>b. notes' = notes /\ o \in Threads
    BY DEF Crash, Threads
  <1>c. req[o] \in Requests
    BY <1>0, <1>a, <1>b DEF OpInv, Place, Working, OnCall, AtCounter, TypeOK, Labels
  <1>1. TypeOK'
    <2>1. torn' \subseteq Ops /\ dropped' \subseteq Requests
      BY <1>0, <1>a, <1>b, <1>c DEF Crash, TypeOK, AtCounter
    <2>2. crashes' \in 0 .. MaxCrashes
      BY <1>0 DEF Crash, TypeOK
    <2>3. pc' \in [Threads -> Labels]
      BY <1>0 DEF Crash, TypeOK, Labels
    <2>4. cnt' \in [Threads -> 0 .. 3]
      BY <1>0, <1>b DEF Crash, TypeOK
    <2> QED BY <1>0, <1>b, <2>1, <2>2, <2>3, <2>4 DEF Crash, TypeOK
  <1>2. OwnStep(o)
    BY <1>0, <1>b DEF Crash, TypeOK, OwnStep, Threads
  <1>3. /\ pc'[o] = "done" /\ req[o] \in dropped' /\ \A r \in dropped : r \in dropped'
        /\ UNCHANGED <<req, status, result, reply, pending, running, notes>>
    BY <1>0, <1>b, <1>c DEF Crash, TypeOK
  <1>4. OpInv(o)'
    <2>1. Place(o)' BY <1>0, <1>3 DEF OpInv, Place, Working, OnCall, AtCounter
    <2>2. InOrder(o)' BY <1>0, <1>3 DEF OpInv, InOrder, Working, AtCounter
    <2>3. AtCall(o)' BY <1>3 DEF AtCall, AtCounter
    <2>4. AtRefusal(o)' BY <1>0, <1>3 DEF OpInv, AtRefusal
    <2>5. Passing(o)' BY <1>0, <1>2, <1>3, OwnStepKeeps DEF OpInv, Passing, Handed
    <2>6. Owed(o)' BY <1>0, <1>2, <1>3, OwnStepKeeps DEF OpInv, Owed
    <2>7. Counting(o)' 
      <3>1. OpenCalls(o)' = OpenCalls(o)
        BY <1>3 DEF OpenCalls, Subs
      <3>2. OpenCalls(o) \subseteq Subs(o)
        BY DEF OpenCalls
      <3>3. Cardinality(OpenCalls(o)) \in Nat
        BY <3>2, SomeSubs
      <3>4. Turn(o, o)' = 0 /\ Turn(o, o) \in {0, 1} /\ Turn(Agent, o)' = Turn(Agent, o) /\ Turn(Agent, o) \in {0, 1}
        BY <1>2, <1>3, OwnStepKeeps DEF Turn, Op, AtCounter
      <3>5. Due(o)' <= Due(o) /\ Due(o) \in Nat /\ Due(o)' \in Nat
        BY <3>1, <3>3, <3>4 DEF Due
      <3>6. pending[o] \in Nat /\ cnt[Agent] \in Nat
        BY <1>0 DEF TypeOK, Threads
      <3> QED BY <1>0, <1>2, <1>3, <3>1, <3>5, <3>6, OwnStepKeeps DEF OpInv, Counting, Op
    <2> QED BY <2>1, <2>2, <2>3, <2>4, <2>5, <2>6, <2>7 DEF OpInv
  <1> QED BY <1>1, <1>2, <1>4, OwnStepInv

(* The agent dies: the notifications it had not taken up are dropped.       *)
LEMMA AgentCrashInv ==
  ASSUME IInv, Crash(Agent)
  PROVE  IInv'
  <1> USE Keys, NullDiffers, RequestsAssumption DEF tables, Goto
  <1>0. TypeOK /\ AgentPlace /\ Origin
    BY DEF IInv
  <1>a. Agent \in Threads /\ \A o \in Ops : o \in Threads /\ o # Agent
    BY DEF Threads
  <1>b. pc[Agent] # "idle" /\ \E o \in Ops : req[Agent] \in Subs(o)
    BY <1>0 DEF Crash, AgentPlace
  <1>c. Op(Agent) \in Ops /\ req[Agent] \in Requests
    BY <1>b DEF Op
  <1>2. /\ pc'[Agent] = "idle" /\ \A o \in Ops : pc'[o] = pc[o] /\ cnt'[o] = cnt[o]
        /\ notes' = {} /\ req[Agent] \in dropped' /\ dropped \subseteq dropped'
        /\ UNCHANGED <<req, status, result, reply, pending, running>>
    BY <1>0, <1>a DEF Crash, TypeOK
  <1>d. dropped' = dropped \cup {req[Agent]} \cup {n[1] : n \in notes}
    BY <1>2 DEF Crash
  <1>e. \A r : Noted(r) => r \in dropped'
    <2> SUFFICES ASSUME NEW r, NEW v \in Final, <<r, v>> \in notes PROVE r \in {n[1] : n \in notes}
      BY <1>d DEF Noted
    <2>1. <<r, v>>[1] = r
      OBVIOUS
    <2> QED BY <2>1
  <1>1. TypeOK'
    <2>1. torn' \subseteq Ops
      BY <1>0, <1>c DEF Crash, TypeOK
    <2>2. dropped' \subseteq Requests
      BY <1>0, <1>c, <1>d DEF TypeOK
    <2>3. crashes' \in 0 .. MaxCrashes
      BY <1>0 DEF Crash, TypeOK
    <2>4. pc' \in [Threads -> Labels]
      BY <1>0 DEF Crash, TypeOK, Labels
    <2>5. cnt' \in [Threads -> 0 .. 3]
      BY <1>0, <1>a DEF Crash, TypeOK
    <2> QED BY <1>0, <1>2, <2>1, <2>2, <2>3, <2>4, <2>5 DEF Crash, TypeOK
  <1>3. ASSUME NEW o \in Ops PROVE OpInv(o)'
    <2>0. OpInv(o)
      BY DEF IInv
    <2>1. Place(o)' BY <2>0, <1>2 DEF OpInv, Place
    <2>2. InOrder(o)' BY <2>0, <1>2 DEF OpInv, InOrder
    <2>3. AtCall(o)' BY <2>0, <1>2 DEF OpInv, AtCall
    <2>4. AtRefusal(o)' BY <2>0, <1>2 DEF OpInv, AtRefusal
    <2>5. \A s : ~InAgent(s)' /\ ~Noted(s)' /\ (Passed(s)' <=> s \in running) /\ (Passed(s) => Passed(s)' \/ s \in dropped')
      BY <1>2, <1>e DEF Noted, InAgent, Passed
    <2>6. Passing(o)' BY <2>0, <1>2, <2>5 DEF OpInv, Passing, Handed, Passed
    <2>7. Owed(o)' BY <2>0, <1>2, <2>5 DEF OpInv, Owed, Subs
    <2>8. Counting(o)'
      <3>1. OpenCalls(o)' = OpenCalls(o)
        BY <1>2 DEF OpenCalls, Subs
      <3>2. OpenCalls(o) \subseteq Subs(o)
        BY DEF OpenCalls
      <3>3. Cardinality(OpenCalls(o)) \in Nat
        BY <3>2, SomeSubs
      <3>4. Turn(Agent, o)' = 0 /\ Turn(Agent, o) \in {0, 1} /\ Turn(o, o)' = Turn(o, o) /\ Turn(o, o) \in {0, 1}
        BY <1>2 DEF Turn, Op, AtCounter
      <3>5. Due(o)' <= Due(o) /\ Due(o) \in Nat /\ Due(o)' \in Nat
        BY <3>1, <3>3, <3>4 DEF Due
      <3>6. pending[o] \in Nat /\ cnt[o] \in Nat
        BY <1>0, <1>a DEF TypeOK
      <3> QED BY <2>0, <1>2, <3>1, <3>5, <3>6 DEF OpInv, Counting, Op
    <2> QED BY <2>1, <2>2, <2>3, <2>4, <2>6, <2>7, <2>8 DEF OpInv
  <1>4. AgentPlace'
    BY <1>2 DEF AgentPlace
  <1>5. Origin'
    BY <1>0, <1>2 DEF Origin, Noted, Subs
  <1> QED BY <1>1, <1>3, <1>4, <1>5 DEF IInv

(* The rest of the state is all that ComeOrGo and a stutter change.         *)
LEMMA ElsewhereInv ==
  ASSUME IInv, online' \in BOOLEAN, UNCHANGED <<tables, reply, running, notes, pc, req, cnt, ghosts>>
  PROVE  IInv'
  <1> USE DEF tables, ghosts
  <1>1. TypeOK'
    BY DEF IInv, TypeOK
  <1>2. AgentPlace' /\ Origin'
    BY DEF IInv, AgentPlace, Origin, Noted, Subs
  <1>3. ASSUME NEW o \in Ops PROVE OpInv(o)'
    <2>1. Untouched(o)
      BY DEF Untouched
    <2> QED BY <2>1, <1>2, Frame
  <1> QED BY <1>1, <1>2, <1>3 DEF IInv

-----------------------------------------------------------------------------
(* Every step of Requests keeps the invariant. *)
LEMMA NextInv ==
  ASSUME IInv, [Next]_vars
  PROVE  IInv'
  <1>0. TypeOK /\ AgentPlace /\ \A o \in Ops : OpInv(o)
    BY DEF IInv
  <1>1. ASSUME NEW o \in Ops, OpStep(o) PROVE IInv'
    <2>1. CASE SaveReq(o)
      <3>1. req[o] = Main(o) \/ req[o] \in Subs(o)
        BY <1>0, <2>1 DEF SaveReq, OpInv, Place, Working
      <3> QED BY <2>1, <3>1, SaveReqInv, SaveRefusalInv
    <2>2. CASE ReadMain(o) \/ SaveMain(o)
      <3>1. req[o] \in Subs(o)
        BY <1>0, <2>2 DEF ReadMain, SaveMain, OpInv, Place, OnCall, AtCounter
      <3> QED BY <2>2, <3>1, ReadMainInv, SaveMainInv
    <2> QED BY <1>1, <2>1, <2>2, BeginInv, BeginOfflineInv, RefuseInv, NewReqInv, GiveUpInv,
               NewResInv, CallInv, AnsweredInv, CallRaisesInv, SaveResInv, NextCallInv
            DEF OpStep, HandlerStep
  <1>2. CASE AgentStep
    <2>1. CASE HandlerStep(Agent)
      <3>1. pc[Agent] # "idle"
        BY <2>1 DEF HandlerStep, SaveReq, ReadMain, SaveMain
      <3>2. PICK o \in Ops : req[Agent] \in Subs(o)
        BY <1>0, <3>1 DEF AgentPlace
      <3> QED BY <2>1, <3>2, SaveReqInv, ReadMainInv, SaveMainInv DEF HandlerStep
    <2> QED BY <1>2, <2>1, NotifyResultInv DEF AgentStep
  <1>3. ASSUME NEW t \in Threads, Crash(t) PROVE IInv'
    BY <1>3, CrashInv, AgentCrashInv DEF Threads
  <1>4. CASE ComeOrGo
    BY <1>0, <1>4, ElsewhereInv DEF ComeOrGo, TypeOK
  <1>5. CASE UNCHANGED vars
    BY <1>0, <1>5, ElsewhereInv DEF vars, board, TypeOK
  <1> QED BY <1>1, <1>2, <1>3, <1>4, <1>5, AnswerInv, NotifyInv DEF Next

(* The invariant holds in every reachable state: it holds at first, and     *)
(* every step of a thread, of the agent and of a board keeps it.            *)
THEOREM Inductive == Spec => []IInv
  <1>1. IInv /\ [Next]_vars => IInv'
    BY NextInv
  <1> QED BY InitInv, <1>1, PTL DEF Spec

(* Every row holds values of its columns, and every thread is somewhere.    *)
THEOREM TypeCorrect == Spec => []TypeOK
  <1>1. IInv => TypeOK
    BY DEF IInv
  <1> QED BY Inductive, <1>1, PTL

(* The counter of a main request is never below the number of its calls     *)
(* that are not completed.                                                 *)
THEOREM CounterIsEnough == Spec => []CounterNeverLow
  <1>1. IInv => CounterNeverLow
    <2> SUFFICES ASSUME IInv, NEW o \in Ops, HasMain(o), status[<<o, 1>>] # NULL
                 PROVE  pending[o] >= Cardinality(OpenCalls(o))
      BY DEF CounterNeverLow, OpenCalls
    <2>1. TypeOK /\ OpInv(o)
      BY DEF IInv
    <2>2. req[o] \in Subs(o)
      BY <2>1, FirstCall DEF OpInv, InOrder
    <2>3. OpenCalls(o) \subseteq Subs(o)
      BY DEF OpenCalls
    <2>4. Cardinality(OpenCalls(o)) \in Nat /\ pending[o] \in 0 .. 3
      BY <2>1, <2>3, SomeSubs DEF TypeOK
    <2>5. Turn(o, o) \in {0, 1} /\ Turn(Agent, o) \in {0, 1}
      BY DEF Turn
    <2> QED BY <2>1, <2>2, <2>4, <2>5 DEF OpInv, Counting, Due
  <1> QED BY Inductive, <1>1, PTL

(* A call that stays PENDING is in somebody's hands, or was dropped.        *)
THEOREM NoCallIsLost == Spec => []PendingIsOwed
  <1>1. IInv => PendingIsOwed
    <2> SUFFICES ASSUME IInv, NEW o \in Ops, NEW r \in Subs(o), status[r] = "PENDING"
                 PROVE  \/ \E t \in Threads : req[t] = r /\ pc[t] \notin {"next", "done", "idle"}
                        \/ r \in running
                        \/ \E v \in Final : <<r, v>> \in notes
                        \/ r \in dropped
      BY DEF PendingIsOwed
    <2>1. AgentPlace /\ OpInv(o)
      BY DEF IInv
    <2>2. \/ req[o] = r /\ pc[o] \notin {"next", "done", "idle"}
          \/ Passed(r)
          \/ r \in dropped
      BY <2>1 DEF OpInv, Owed
    <2>3. InAgent(r) => req[Agent] = r /\ pc[Agent] \notin {"next", "done", "idle"}
      BY <2>1 DEF InAgent, AgentPlace, AtCounter
    <2> QED BY <2>2, <2>3 DEF Passed, Noted, Threads
  <1> QED BY Inductive, <1>1, PTL

-----------------------------------------------------------------------------
(* The refinement: what MainRequests sees of the rows. *)
MainBar(st) == [o \in MainOps |-> st[Main(o)]]
CallBar(st) == [o \in MainOps |-> [i \in 1 .. Planned[Kind[o]] |-> st[<<o, i>>]]]

(* A call that is COMPLETED has its answer: Recorded is the status.         *)
LEMMA RecordedIsStatus ==
  ASSUME IInv, IInv', NEW o \in Ops, NEW r \in Subs(o)
  PROVE  Recorded(r) = status[r] /\ Recorded(r)' = status'[r]
  <1>1. status[r] \in {NULL, "PENDING", "COMPLETED"} /\ status'[r] \in {NULL, "PENDING", "COMPLETED"}
    BY Keys DEF IInv, TypeOK
  <1>2. /\ status[r] = "COMPLETED" => result[r] \in Final
        /\ status'[r] = "COMPLETED" => result'[r] \in Final
    BY DEF IInv, OpInv, Passing, Handed
  <1> QED BY <1>1, <1>2 DEF Recorded, Final

(* What the abstract specification sees of the calls is the function of the *)
(* rows that the lemmas above speak of.                                     *)
LEMMA Bars ==
  ASSUME IInv, IInv'
  PROVE  /\ [o \in MainOps |-> [i \in 1 .. Planned[Kind[o]] |-> Recorded(<<o, i>>)]] = CallBar(status)
         /\ [o \in MainOps |-> [i \in 1 .. Planned[Kind[o]] |-> Recorded(<<o, i>>)]]' = CallBar(status')
  <1>1. \A o \in MainOps : \A i \in 1 .. Planned[Kind[o]] : <<o, i>> \in Subs(o) /\ o \in Ops
    BY CallKeys DEF MainOps
  <1>2. \A o \in MainOps : \A i \in 1 .. Planned[Kind[o]] :
          Recorded(<<o, i>>) = status[<<o, i>>] /\ Recorded(<<o, i>>)' = status'[<<o, i>>]
    BY <1>1, RecordedIsStatus
  <1> QED BY <1>2 DEF CallBar, MainOps

(* A step that changes no row of an operation with a main request.          *)
LEMMA SimStutter ==
  ASSUME IInv, IInv', \A o \in Ops : HasMain(o) => \A r \in Subs(o) \cup {Main(o)} : status'[r] = status[r]
  PROVE  UNCHANGED Abstract!vars
  <1>1. \A o \in MainOps : \A i \in 1 .. Planned[Kind[o]] : <<o, i>> \in Subs(o) /\ o \in Ops /\ HasMain(o)
    BY CallKeys DEF MainOps
  <1>2. CallBar(status') = CallBar(status)
    BY <1>1 DEF CallBar
  <1>3. MainBar(status') = MainBar(status)
    BY DEF MainBar, MainOps
  <1> QED BY <1>2, <1>3, Bars DEF Abstract!vars, MainBar, Main, MainOps

(* The main request of an operation changes, and no other row.              *)
LEMMA MainChanges ==
  ASSUME NEW o \in MainOps, NEW v, status \in [Requests -> {NULL, "PENDING", "COMPLETED"}],
         status' = [status EXCEPT ![Main(o)] = v]
  PROVE  MainBar(status') = [MainBar(status) EXCEPT ![o] = v] /\ CallBar(status') = CallBar(status)
  <1>1. \A p \in MainOps : p \in Ops /\ Main(p) \in Requests /\ (Main(p) = Main(o) <=> p = o)
    BY Keys DEF MainOps
  <1>2. \A p \in MainOps : \A i \in 1 .. Planned[Kind[p]] :
          <<p, i>> \in Requests /\ <<p, i>> # Main(o)
    <2> SUFFICES ASSUME NEW p \in MainOps, NEW i \in 1 .. Planned[Kind[p]]
                 PROVE  <<p, i>> \in Requests /\ <<p, i>> # Main(o)
      OBVIOUS
    <2>1. p \in Ops /\ o \in Ops
      BY <1>1
    <2>2. <<p, i>> \in Subs(p) /\ <<p, i>> \in Requests
      BY <2>1, CallKeys
    <2> QED BY <2>1, <2>2, Keys
  <1>3. \A p \in MainOps : status'[Main(p)] = IF p = o THEN v ELSE status[Main(p)]
    BY <1>1
  <1>4. \A p \in MainOps : \A i \in 1 .. Planned[Kind[p]] : status'[<<p, i>>] = status[<<p, i>>]
    BY <1>2
  <1>5. MainBar(status') = [p \in MainOps |-> IF p = o THEN v ELSE MainBar(status)[p]]
    BY <1>3 DEF MainBar
  <1>6. MainBar(status') = [MainBar(status) EXCEPT ![o] = v]
    BY <1>5 DEF MainBar
  <1>7. CallBar(status') = CallBar(status)
    BY <1>4 DEF CallBar
  <1> QED BY <1>6, <1>7

(* A call of an operation changes, and no other row.                        *)
LEMMA CallChanges ==
  ASSUME NEW o \in MainOps, NEW i \in 1 .. Planned[Kind[o]], NEW v,
         status \in [Requests -> {NULL, "PENDING", "COMPLETED"}],
         status' = [status EXCEPT ![<<o, i>>] = v]
  PROVE  CallBar(status') = [CallBar(status) EXCEPT ![o][i] = v] /\ MainBar(status') = MainBar(status)
  <1>1. \A p \in MainOps : p \in Ops /\ Main(p) \in Requests /\ Main(p) # <<o, i>>
    BY CallKeys, Keys DEF MainOps
  <1>2. \A p \in MainOps : \A j \in 1 .. Planned[Kind[p]] : <<p, j>> \in Requests
    BY <1>1, CallKeys
  <1>3. \A p \in MainOps : status'[Main(p)] = status[Main(p)]
    BY <1>1
  <1>4. \A p \in MainOps : \A j \in 1 .. Planned[Kind[p]] :
          status'[<<p, j>>] = IF p = o /\ j = i THEN v ELSE status[<<p, j>>]
    BY <1>2
  <1>5. MainBar(status') = MainBar(status)
    BY <1>3 DEF MainBar
  <1> DEFINE row(p) == [j \in 1 .. Planned[Kind[p]] |-> status[<<p, j>>]]
             row2(p) == [j \in 1 .. Planned[Kind[p]] |-> status'[<<p, j>>]]
  <1>6. \A p \in MainOps : p # o => row2(p) = row(p)
    BY <1>4
  <1>7. row2(o) = [j \in 1 .. Planned[Kind[o]] |-> IF j = i THEN v ELSE status[<<o, j>>]]
    BY <1>4
  <1>8. row2(o) = [row(o) EXCEPT ![i] = v]
    BY <1>7
  <1>9. CallBar(status) = [p \in MainOps |-> row(p)] /\ CallBar(status') = [p \in MainOps |-> row2(p)]
    BY DEF CallBar
  <1>10. CallBar(status') = [CallBar(status) EXCEPT ![o][i] = v]
    <2> HIDE DEF row, row2
    <2> QED BY <1>6, <1>8, <1>9, ZenonT(60)
  <1> QED BY <1>5, <1>10

(* The main request is opened. *)
LEMMA SimOpen ==
  ASSUME IInv, IInv', NEW o \in Ops, HasMain(o), status[Main(o)] = NULL,
         status' = [status EXCEPT ![Main(o)] = "PENDING"]
  PROVE  Abstract!Next
  <1>1. o \in MainOps /\ status \in [Requests -> {NULL, "PENDING", "COMPLETED"}]
    BY DEF MainOps, IInv, TypeOK
  <1>2. MainBar(status') = [MainBar(status) EXCEPT ![o] = "PENDING"] /\ CallBar(status') = CallBar(status)
    BY <1>1, MainChanges
  <1>3. Abstract!Open(o)
    BY <1>1, <1>2, Bars DEF Abstract!Open, MainBar, Main, MainOps
  <1> QED BY <1>1, <1>3 DEF Abstract!Next

(* It is completed: with no call made, or with all of them completed.       *)
LEMMA SimClose ==
  ASSUME IInv, IInv', NEW o \in Ops, HasMain(o), status[Main(o)] = "PENDING",
         status' = [status EXCEPT ![Main(o)] = "COMPLETED"],
         (\A r \in Subs(o) : status[r] = NULL) \/ (\A r \in Subs(o) : status[r] = "COMPLETED")
  PROVE  Abstract!Next
  <1>1. o \in MainOps /\ status \in [Requests -> {NULL, "PENDING", "COMPLETED"}]
    BY DEF MainOps, IInv, TypeOK
  <1>2. MainBar(status') = [MainBar(status) EXCEPT ![o] = "COMPLETED"] /\ CallBar(status') = CallBar(status)
    BY <1>1, MainChanges
  <1>3. Abstract!Calls(o) = 1 .. Planned[Kind[o]]
    BY <1>1 DEF Abstract!Calls
  <1>4. \A i \in 1 .. Planned[Kind[o]] : <<o, i>> \in Subs(o) /\ CallBar(status)[o][i] = status[<<o, i>>]
    BY <1>1, CallKeys DEF CallBar
  <1>a. Abstract!Made(o) = {i \in 1 .. Planned[Kind[o]] : CallBar(status)[o][i] # NULL}
    BY <1>3, Bars DEF Abstract!Made
  <1>b. Abstract!Finished(o) = {i \in 1 .. Planned[Kind[o]] : CallBar(status)[o][i] = "COMPLETED"}
    BY <1>3, Bars DEF Abstract!Finished
  <1>5. Abstract!Made(o) = {} \/ Abstract!Finished(o) = Abstract!Calls(o)
    <2>1. CASE \A r \in Subs(o) : status[r] = NULL
      BY <1>4, <1>a, <2>1
    <2>2. CASE \A r \in Subs(o) : status[r] = "COMPLETED"
      BY <1>3, <1>4, <1>b, <2>2
    <2> QED BY <2>1, <2>2
  <1>6. Abstract!Close(o)
    BY <1>1, <1>2, <1>5, Bars DEF Abstract!Close, MainBar, Main, MainOps
  <1> QED BY <1>1, <1>6 DEF Abstract!Next

(* A call is made: the first, or the one after those made before.           *)
LEMMA SimStart ==
  ASSUME IInv, IInv', NEW o \in Ops, HasMain(o), pc[o] = "lookup",
         status' = [status EXCEPT ![req[o]] = "PENDING"]
  PROVE  Abstract!Next
  <1>1. o \in MainOps /\ status \in [Requests -> {NULL, "PENDING", "COMPLETED"}] /\ OpInv(o)
    BY DEF MainOps, IInv, TypeOK
  <1>0. \E j \in 1 .. Planned[Kind[o]] : req[o] \in Subs(o) /\ req[o] = <<o, j>> /\ req[o][2] = j
    BY <1>1, Keys DEF OpInv, Place, OnCall
  <1>a. PICK i \in 1 .. Planned[Kind[o]] : req[o] \in Subs(o) /\ req[o] = <<o, i>> /\ req[o][2] = i
    BY <1>0
  <1>2. req[o] \in Subs(o) /\ req[o] = <<o, i>> /\ req[o][2] = i /\ Planned[Kind[o]] \in 1 .. 3
    BY <1>a, Keys
  <1>3. CallBar(status') = [CallBar(status) EXCEPT ![o][i] = "PENDING"] /\ MainBar(status') = MainBar(status)
    <2>1. status' = [status EXCEPT ![<<o, i>>] = "PENDING"]
      BY <1>2
    <2>2. o \in MainOps /\ status \in [Requests -> {NULL, "PENDING", "COMPLETED"}]
      BY <1>1
    <2>3. \A v : status' = [status EXCEPT ![<<o, i>>] = v] =>
                  CallBar(status') = [CallBar(status) EXCEPT ![o][i] = v] /\ MainBar(status') = MainBar(status)
      BY <2>2, CallChanges
    <2> QED BY <2>1, <2>3
  <1>4. status[Main(o)] = "PENDING"
    <2>1. req[o] \in OpenCalls(o) /\ status[Main(o)] # NULL
      BY <1>1, <1>2, NullDiffers DEF OpInv, InOrder, OpenCalls
    <2>2. status[Main(o)] # "COMPLETED"
      BY <1>1, <1>2, <2>1 DEF OpInv, Counting
    <2> QED BY <1>1, <2>1, <2>2, Keys
  <1>5. \A j \in 1 .. Planned[Kind[o]] :
          CallBar(status)[o][j] = status[<<o, j>>] /\ (status[<<o, j>>] # NULL <=> j < i)
    <2>1. ASSUME NEW j \in 1 .. Planned[Kind[o]] PROVE status[<<o, j>>] # NULL <=> j < i
      <3>1. <<o, j>> \in Subs(o) /\ <<o, j>>[2] = j
        BY CallKeys
      <3>2. j < i \/ j = i \/ j > i
        BY <1>2
      <3> QED BY <1>1, <1>2, <3>1, <3>2 DEF OpInv, InOrder
    <2> QED BY <1>1, <2>1 DEF CallBar
  <1>6. Abstract!Calls(o) = 1 .. Planned[Kind[o]]
    BY <1>1 DEF Abstract!Calls
  <1>7. Abstract!Made(o) = 1 .. i - 1
    <2>1. Abstract!Made(o) = {j \in 1 .. Planned[Kind[o]] : j < i}
      BY <1>1, <1>5, <1>6, Bars DEF Abstract!Made
    <2> QED BY <1>2, <2>1
  <1>8. Abstract!Start(o, i)
    BY <1>1, <1>3, <1>4, <1>7, Bars DEF Abstract!Start, MainBar, Main, MainOps
  <1>9. i \in Abstract!Calls(o)
    BY <1>2, <1>6
  <1>10. \E j \in Abstract!Calls(o) : Abstract!Start(o, j) \/ Abstract!Finish(o, j)
    BY <1>8, <1>9
  <1> QED BY <1>1, <1>10 DEF Abstract!Next

(* The answer of a call is recorded. *)
LEMMA SimFinish ==
  ASSUME IInv, IInv', NEW o \in Ops, HasMain(o), NEW r \in Subs(o), status[r] = "PENDING",
         status' = [status EXCEPT ![r] = "COMPLETED"]
  PROVE  Abstract!Next
  <1> DEFINE i == r[2]
  <1>1. o \in MainOps /\ status \in [Requests -> {NULL, "PENDING", "COMPLETED"}]
    BY DEF MainOps, IInv, TypeOK
  <1>2. r = <<o, i>> /\ i \in 1 .. Planned[Kind[o]]
    BY Keys
  <1>3. CallBar(status') = [CallBar(status) EXCEPT ![o][i] = "COMPLETED"] /\ MainBar(status') = MainBar(status)
    BY <1>1, <1>2, CallChanges
  <1>4. CallBar(status)[o][i] = "PENDING"
    BY <1>1, <1>2 DEF CallBar
  <1>5. Abstract!Calls(o) = 1 .. Planned[Kind[o]]
    BY <1>1 DEF Abstract!Calls
  <1>6. Abstract!Finish(o, i)
    BY <1>1, <1>3, <1>4, Bars DEF Abstract!Finish, MainBar, Main, MainOps
  <1>7. i \in Abstract!Calls(o)
    BY <1>2, <1>5
  <1> HIDE DEF i
  <1> QED BY <1>1, <1>6, <1>7 DEF Abstract!Next

(* Every step of Requests is a step of MainRequests, or none.               *)
LEMMA StepSim ==
  ASSUME IInv, IInv', [Next]_vars
  PROVE  [Abstract!Next]_(Abstract!vars)
  <1> USE Keys
  <1>0. TypeOK /\ AgentPlace /\ \A o \in Ops : OpInv(o)
    BY DEF IInv
  <1> DEFINE Sim == Abstract!Next \/ UNCHANGED Abstract!vars
  <1>1. status' = status => Sim
    BY SimStutter
  <1>2. ASSUME NEW o \in Ops, Begin(o) \/ BeginOffline(o) \/ Refuse(o) PROVE Sim
    <2>1. status[Main(o)] = NULL
      BY <1>0, <1>2 DEF Begin, BeginOffline, Refuse, OpInv, InOrder
    <2>2. status' = status \/ status' = [status EXCEPT ![Main(o)] = "PENDING"]
      BY <1>2 DEF Begin, BeginOffline, Refuse
    <2>3. CASE HasMain(o)
      BY <1>1, <2>1, <2>2, <2>3, SimOpen
    <2>4. CASE ~HasMain(o)
      <3>1. \A p \in Ops : HasMain(p) => \A r \in Subs(p) \cup {Main(p)} : status'[r] = status[r]
        BY <1>0, <2>2, <2>4 DEF TypeOK
      <3> QED BY <3>1, SimStutter
    <2> QED BY <2>3, <2>4
  <1>3. ASSUME NEW o \in Ops, NewReq(o) PROVE Sim
    <2>1. pc[o] = "lookup" /\ status' = [status EXCEPT ![req[o]] = "PENDING"] /\ req[o] \in Subs(o)
      BY <1>0, <1>3 DEF NewReq, OpInv, Place, OnCall
    <2>2. CASE HasMain(o)
      BY <2>1, <2>2, SimStart
    <2>3. CASE ~HasMain(o)
      <3>1. \A p \in Ops : HasMain(p) => \A r \in Subs(p) \cup {Main(p)} : status'[r] = status[r]
        BY <1>0, <2>1, <2>3 DEF TypeOK
      <3> QED BY <3>1, SimStutter
    <2> QED BY <2>2, <2>3
  <1>4. ASSUME NEW o \in Ops, NEW t \in {o, Agent}, req[t] \in Subs(o), SaveReq(t) PROVE Sim
    <2>1. status[req[t]] = "PENDING" /\ status' = [status EXCEPT ![req[t]] = "COMPLETED"]
      BY <1>4, HandlerKeys DEF SaveReq
    <2>2. CASE HasMain(o)
      BY <1>4, <2>1, <2>2, SimFinish
    <2>3. CASE ~HasMain(o)
      <3>1. \A p \in Ops : HasMain(p) => \A r \in Subs(p) \cup {Main(p)} : status'[r] = status[r]
        BY <1>0, <1>4, <2>1, <2>3 DEF TypeOK
      <3> QED BY <3>1, SimStutter
    <2> QED BY <2>2, <2>3
  <1>5. ASSUME NEW o \in Ops, req[o] = Main(o), SaveReq(o) PROVE Sim
    <2>1. status' = [status EXCEPT ![Main(o)] = "COMPLETED"] /\ status[Main(o)] # NULL
          /\ \A r \in Subs(o) : status[r] = NULL
      BY <1>0, <1>5 DEF SaveReq, OpInv, InOrder, Working
    <2>2. status[Main(o)] = "PENDING" \/ status' = status
      BY <1>0, <2>1 DEF TypeOK
    <2>3. CASE HasMain(o)
      BY <1>1, <2>1, <2>2, <2>3, SimClose
    <2>4. CASE ~HasMain(o)
      <3>1. \A p \in Ops : HasMain(p) => \A r \in Subs(p) \cup {Main(p)} : status'[r] = status[r]
        BY <1>0, <2>1, <2>4 DEF TypeOK
      <3> QED BY <3>1, SimStutter
    <2> QED BY <2>3, <2>4
  <1>6. ASSUME NEW o \in Ops, NEW t \in {o, Agent}, req[t] \in Subs(o), SaveMain(t) PROVE Sim
    <2>1. pc[t] = "save_main" /\ Op(t) = o /\ HasMain(o) /\ req[o] \in Subs(o)
      BY <1>6, HandlerKeys DEF SaveMain, AtCounter
    <2>2. status' = status \/ status' = [status EXCEPT ![Main(o)] = "COMPLETED"]
      BY <1>6, <2>1 DEF SaveMain
    <2>3. CASE status' # status
      <3>1. cnt[t] - 1 = 0
        BY <1>6, <2>3 DEF SaveMain, IsLast
      <3>2. status[Main(o)] = "PENDING"
        BY <1>0, <2>1, <2>2, <2>3 DEF OpInv, InOrder, TypeOK
      <3>3. OpenCalls(o) \subseteq Subs(o)
        BY DEF OpenCalls
      <3>4. Cardinality(OpenCalls(o)) \in Nat /\ (Cardinality(OpenCalls(o)) = 0 => OpenCalls(o) = {})
        BY <3>3, SomeSubs
      <3>5. Turn(t, o) = 1 /\ \A u \in {o, Agent} : Turn(u, o) \in {0, 1}
        BY <2>1 DEF Turn, AtCounter
      <3>6. cnt[t] \in 0 .. 3 /\ cnt[t] >= Due(o)
        BY <1>0, <2>1 DEF OpInv, Counting, TypeOK, Threads
      <3>7. OpenCalls(o) = {}
        BY <3>1, <3>4, <3>5, <3>6 DEF Due
      <3>8. \A r \in Subs(o) : status[r] = "COMPLETED"
        BY <3>7 DEF OpenCalls
      <3> QED BY <2>1, <2>2, <2>3, <3>2, <3>8, SimClose
    <2> QED BY <1>1, <2>3
  <1> HIDE DEF Sim
  <1>7. ASSUME NEW o \in Ops, OpStep(o) PROVE Sim
    <2>1. CASE SaveReq(o)
      BY <1>0, <1>4, <1>5, <2>1 DEF SaveReq, OpInv, Place, Working
    <2>2. CASE SaveMain(o)
      BY <1>0, <1>6, <2>2 DEF SaveMain, OpInv, Place, OnCall, AtCounter
    <2>3. CASE GiveUp(o) \/ NewRes(o) \/ Call(o) \/ Answered(o) \/ CallRaises(o) \/ SaveRes(o)
               \/ NextCall(o) \/ ReadMain(o)
      BY <1>1, <2>3 DEF GiveUp, NewRes, Call, Answered, CallRaises, SaveRes, NextCall, ReadMain, tables
    <2> QED BY <1>2, <1>3, <1>7, <2>1, <2>2, <2>3 DEF OpStep, HandlerStep
  <1>8. ASSUME HandlerStep(Agent) PROVE Sim
    <2>1. pc[Agent] # "idle"
      BY <1>8 DEF HandlerStep, SaveReq, ReadMain, SaveMain
    <2>2. PICK o \in Ops : req[Agent] \in Subs(o)
      BY <1>0, <2>1 DEF AgentPlace
    <2>3. ReadMain(Agent) => Sim
      BY <1>1 DEF ReadMain, tables
    <2>4. SaveReq(Agent) => Sim
      BY <1>4, <2>2
    <2>5. SaveMain(Agent) => Sim
      BY <1>6, <2>2
    <2> QED BY <1>8, <2>3, <2>4, <2>5 DEF HandlerStep
  <1>9. ASSUME NEW r \in Requests, NEW v, NotifyResult(r, v) \/ Answer(r, v) \/ Notify(r, v) PROVE Sim
    BY <1>1, <1>9 DEF NotifyResult, Answer, Notify, tables
  <1>10. ASSUME NEW t \in Threads, Crash(t) PROVE Sim
    BY <1>1, <1>10 DEF Crash, tables
  <1>11. ComeOrGo => Sim
    BY <1>1 DEF ComeOrGo, tables
  <1>12. UNCHANGED vars => Sim
    BY <1>1 DEF vars, tables
  <1>13. AgentStep => Sim
    BY <1>8, <1>9 DEF AgentStep
  <1>14. Next => Sim
    BY <1>7, <1>9, <1>10, <1>11, <1>13 DEF Next
  <1>15. Sim
    BY <1>12, <1>14
  <1> QED BY <1>15 DEF Sim

(* The tables are empty, and so are the abstract ones.                      *)
LEMMA InitSim == Init => Abstract!Init
  <1> SUFFICES ASSUME Init PROVE Abstract!Init
    OBVIOUS
  <1>1. \A o \in MainOps : o \in Ops /\ Main(o) \in Requests
    BY Keys DEF MainOps
  <1>2. \A o \in MainOps : \A i \in 1 .. Planned[Kind[o]] : <<o, i>> \in Requests
    BY <1>1, CallKeys
  <1>3. \A o \in MainOps : \A i \in 1 .. Planned[Kind[o]] : Recorded(<<o, i>>) = NULL
    BY <1>2 DEF Init, Recorded
  <1>4. \A o \in MainOps : status[Main(o)] = NULL
    BY <1>1 DEF Init
  <1>5. \A o \in MainOps : Abstract!Calls(o) = 1 .. Planned[Kind[o]]
    BY DEF Abstract!Calls
  <1> QED BY <1>3, <1>4, <1>5 DEF Abstract!Init

(* Counted down by threads that read and save it unlocked and may be killed *)
(* in between, a main request is completed once, when all of its calls are. *)
THEOREM Refines == Spec => ImplementsMain
  <1>1. IInv /\ IInv' /\ [Next]_vars => [Abstract!Next]_(Abstract!vars)
    BY StepSim
  <1> QED BY Inductive, InitSim, <1>1, PTL DEF Spec, ImplementsMain, Abstract!Spec
=============================================================================
