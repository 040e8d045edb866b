---------------------------- MODULE ServicePorts ----------------------------
(***************************************************************************)
(* Exposing a service of a board: the conductor's list of free public      *)
(* ports, the exposed_services table and the allow list of the agent.      *)
(*                                                                         *)
(* action_service runs in a thread of the conductor per call. The list of  *)
(* free ports is a global of the process, rebuilt from the table when it   *)
(* is empty; the allow list is a file that the agent reads and writes back,*)
(* in a thread per call too. Nothing is locked.                            *)
(***************************************************************************)
EXTENDS Naturals, FiniteSets

CONSTANTS
  Boards, Services,
  Ports,       \* between service_port_min and service_port_max
  Workers,     \* threads of the conductor
  NULL,
  MaxRestarts  \* bound on restarts of the conductor

ASSUME PortsAssumption ==
  /\ NULL \notin Ports
  /\ MaxRestarts \in Nat

Nodes == Boards \X Ports
Jobs  == Boards \X Services

VARIABLES
  free,      \* SERVICE_PORT_LIST: how often it holds each port
  exposed,   \* rows of exposed_services: <<board, service, port>>
  allow,     \* the allow list: <<board, port>>
  pc,
  job,       \* the board and service a worker acts on
  port,      \* the port it has picked or read
  view,      \* the free ports it has computed to rebuild the list
  file,      \* the allow list it has read
  reused,    \* ports that have got into the list while they were in use
  clobbered, \* entries that two threads of the agent lost or brought back
  retaken,   \* entries whose board took the port again while it used it
  leftover,  \* entries left in the allow list by an operation that failed
  restarts

tables == <<free, exposed, allow>>
locals == <<job, port, view, file>>
ghosts == <<reused, clobbered, retaken, leftover, restarts>>
vars   == <<tables, pc, locals, ghosts>>

Enabling  == {"check", "used", "refill", "choose", "take",
              "add_read", "add_write", "enable", "record"}
Disabling == {"disable", "append", "destroy", "del_read", "del_write"}

(* The type of every variable. *)
TypeOK ==
  /\ free \in [Ports -> Nat]
  /\ exposed \subseteq Boards \X Services \X Ports
  /\ allow \subseteq Nodes
  /\ pc \in [Workers -> Enabling \cup Disabling \cup {"idle"}]
  /\ job \in [Workers -> Jobs \cup {NULL}]
  /\ port \in [Workers -> Ports \cup {NULL}]
  /\ view \in [Workers -> SUBSET Ports]
  /\ file \in [Workers -> SUBSET Nodes]
  /\ reused \subseteq Ports
  /\ clobbered \subseteq Nodes
  /\ retaken \subseteq Nodes
  /\ leftover \subseteq Nodes
  /\ restarts \in 0 .. MaxRestarts

Init ==
  /\ free = [p \in Ports |-> 0]
  /\ exposed = {}
  /\ allow = {}
  /\ pc = [w \in Workers |-> "idle"]
  /\ job = [w \in Workers |-> NULL]
  /\ port = [w \in Workers |-> NULL]
  /\ view = [w \in Workers |-> {}]
  /\ file = [w \in Workers |-> {}]
  /\ reused = {}
  /\ clobbered = {}
  /\ retaken = {}
  /\ leftover = {}
  /\ restarts = 0

-----------------------------------------------------------------------------
Goto(w, label) == pc' = [pc EXCEPT ![w] = label]

(* The operation of w returns or raises. *)
Finish(w) ==
  /\ Goto(w, "idle")
  /\ job' = [job EXCEPT ![w] = NULL]
  /\ port' = [port EXCEPT ![w] = NULL]
  /\ view' = [view EXCEPT ![w] = {}]
  /\ file' = [file EXCEPT ![w] = {}]

Node(w) == <<job[w][1], port[w]>>
Rows(b, s) == {e \in exposed : e[1] = b /\ e[2] = s}
UsedPorts == {e[3] : e \in exposed}

(* Ports picked for a service whose row is not written yet. *)
Holders == {w \in Workers : pc[w] \in {"add_read", "add_write", "enable", "record"}}
Held    == {port[w] : w \in Holders}

(* What a board uses a port for: a row, a thread that is about to write one, *)
(* a thread that has destroyed one and is about to remove its entry.         *)
Removers == {w \in Workers : pc[w] \in {"del_read", "del_write"}}
InUse(n) == \/ \E e \in exposed : <<e[1], e[3]>> = n
            \/ \E w \in Holders \cup Removers : Node(w) = n

(* The users of the API run one action at a time on a service of a board.   *)
Unattended(b, s) == \A w \in Workers : job[w] # <<b, s>>

-----------------------------------------------------------------------------
(* random_public_port *)

(* if not SERVICE_PORT_LIST: *)
CheckList(w) ==
  /\ pc[w] = "check"
  /\ Goto(w, IF \A p \in Ports : free[p] = 0 THEN "used" ELSE "choose")
  /\ UNCHANGED <<tables, locals, ghosts>>

(* exp_list = ExposedService.get_all_ports() *)
ReadUsed(w) ==
  /\ pc[w] = "used"
  /\ view' = [view EXCEPT ![w] = Ports \ UsedPorts]
  /\ Goto(w, "refill")
  /\ UNCHANGED <<tables, job, port, file, ghosts>>

(* SERVICE_PORT_LIST = list(set(full_list) - set(exp_list)) *)
Refill(w) ==
  /\ pc[w] = "refill"
  /\ free' = [p \in Ports |-> IF p \in view[w] THEN 1 ELSE 0]
  /\ reused' = (reused \cup view[w]) \cap (Held \cup UsedPorts)
  /\ view' = [view EXCEPT ![w] = {}]
  /\ Goto(w, "choose")
  /\ UNCHANGED <<exposed, allow, job, port, file, clobbered, retaken, leftover, restarts>>

(* num = random.choice(SERVICE_PORT_LIST) *)
Choose(w, p) ==
  /\ pc[w] = "choose"
  /\ free[p] > 0
  /\ port' = [port EXCEPT ![w] = p]
  /\ Goto(w, "take")
  /\ UNCHANGED <<tables, job, view, file, ghosts>>

(* No more ports available. *)
NotEnoughPort(w) ==
  /\ pc[w] = "choose"
  /\ \A p \in Ports : free[p] = 0
  /\ Finish(w)
  /\ UNCHANGED <<tables, ghosts>>

(* Mutant: the port stays in the list. *)
TakeNothing(w) ==
  /\ pc[w] = "take"
  /\ Goto(w, "add_read")
  /\ UNCHANGED <<tables, locals, ghosts>>

(* What is remembered of an entry ends with its use: a board that takes a   *)
(* port it does not use begins anew.                                        *)
Retake(n) ==
  IF InUse(n)
    THEN retaken' = retaken \cup {n} /\ UNCHANGED clobbered
    ELSE /\ retaken' = retaken \ {n}
         /\ clobbered' = IF n \in allow THEN clobbered ELSE clobbered \ {n}

(* SERVICE_PORT_LIST.remove(num) raises if another thread was faster. *)
Take(w) ==
  /\ pc[w] = "take"
  /\ IF free[port[w]] > 0
       THEN /\ free' = [free EXCEPT ![port[w]] = @ - 1]
            /\ Retake(Node(w))
            /\ Goto(w, "add_read")
            /\ UNCHANGED locals
       ELSE Finish(w) /\ UNCHANGED <<free, clobbered, retaken>>
  /\ UNCHANGED <<exposed, allow, reused, leftover, restarts>>

-----------------------------------------------------------------------------
(* addin_allowlist and remove_from_allowlist, in a thread of the agent. *)

(* read_allowlist() while another thread rewrites the file: it may see half *)
(* of it and answer None, and the error is only printed.                    *)
ReadTorn(w, next) ==
  /\ \E u \in Workers \ {w} : pc[u] \in {"add_write", "del_write"}
  /\ clobbered' = clobbered \cup {Node(w)}
  /\ IF next = "idle" THEN Finish(w) ELSE Goto(w, next) /\ UNCHANGED locals

(* Mutant: the entry stays. *)
WithoutNothing(list, n) == list

(* allow_list.remove(new_node) *)
Without(list, n) == list \ {n}

(* Mutant: an entry of the board for another port will do. *)
AddReadBoard(w) ==
  /\ pc[w] = "add_read"
  /\ UNCHANGED <<tables, ghosts>>
  /\ \/ /\ \E n \in allow : n[1] = job[w][1]
        /\ Goto(w, "enable")
        /\ UNCHANGED locals
     \/ /\ \A n \in allow : n[1] # job[w][1]
        /\ file' = [file EXCEPT ![w] = allow]
        /\ Goto(w, "add_write")
        /\ UNCHANGED <<job, port, view>>

AddRead(w) ==
  /\ pc[w] = "add_read"
  /\ UNCHANGED <<tables, reused, retaken, leftover, restarts>>
  /\ \/ /\ Node(w) \in allow
        /\ Goto(w, "enable")
        /\ UNCHANGED <<locals, clobbered>>
     \/ /\ Node(w) \notin allow
        /\ file' = [file EXCEPT ![w] = allow]
        /\ Goto(w, "add_write")
        /\ UNCHANGED <<job, port, view, clobbered>>
     \/ ReadTorn(w, "enable")

(* The entries that differ between the file and what w has read of it.      *)
Overwritten(w) == (allow \ file[w]) \cup (file[w] \ allow)

AddWrite(w) ==
  /\ pc[w] = "add_write"
  /\ allow' = file[w] \cup {Node(w)}
  /\ clobbered' = clobbered \cup Overwritten(w)
  /\ leftover' = leftover \cap allow'
  /\ file' = [file EXCEPT ![w] = {}]
  /\ Goto(w, "enable")
  /\ UNCHANGED <<free, exposed, job, port, view, reused, retaken, restarts>>

RemoveRead(w) ==
  /\ pc[w] = "del_read"
  /\ UNCHANGED <<tables, reused, retaken, restarts>>
  /\ \/ /\ Node(w) \notin allow
        /\ Finish(w)
        /\ UNCHANGED <<clobbered, leftover>>
     \/ /\ Node(w) \in allow
        /\ file' = [file EXCEPT ![w] = allow]
        /\ Goto(w, "del_write")
        /\ UNCHANGED <<job, port, view, clobbered, leftover>>
     \/ ReadTorn(w, "idle") /\ UNCHANGED leftover

RemoveWrite(w) ==
  /\ pc[w] = "del_write"
  /\ allow' = Without(file[w], Node(w))
  /\ clobbered' = clobbered \cup Overwritten(w)
  /\ leftover' = leftover \cap allow'
  /\ Finish(w)
  /\ UNCHANGED <<free, exposed, reused, retaken, restarts>>

(* The call to the agent raises; an entry to be removed stays.              *)
AgentUnreachable(w) ==
  /\ pc[w] \in {"add_read", "del_read"}
  /\ leftover' = IF pc[w] = "del_read" THEN leftover \cup ({Node(w)} \cap allow) ELSE leftover
  /\ Finish(w)
  /\ UNCHANGED <<tables, reused, clobbered, retaken, restarts>>

-----------------------------------------------------------------------------
(* ServiceEnable *)

(* The service is not exposed: ExposedService.get finds no row (or several). *)
ServiceEnable(w, b, s) ==
  /\ pc[w] = "idle"
  /\ Unattended(b, s)
  /\ Cardinality(Rows(b, s)) # 1
  /\ job' = [job EXCEPT ![w] = <<b, s>>]
  /\ Goto(w, "check")
  /\ UNCHANGED <<tables, port, view, file, ghosts>>

EnabledOnBoard(w) ==
  /\ pc[w] = "enable"
  /\ Goto(w, "record")
  /\ UNCHANGED <<tables, locals, ghosts>>

(* The board is offline, answers with an error or does not answer: the      *)
(* operation raises, and neither the port nor the allow list is restored.   *)
EnableFails(w) ==
  /\ pc[w] = "enable"
  /\ leftover' = leftover \cup ({Node(w)} \cap allow)
  /\ Finish(w)
  /\ UNCHANGED <<tables, reused, clobbered, retaken, restarts>>

(* exposed.create() *)
Record(w) ==
  /\ pc[w] = "record"
  /\ exposed' = exposed \cup {<<job[w][1], job[w][2], port[w]>>}
  /\ Finish(w)
  /\ UNCHANGED <<free, allow, ghosts>>

-----------------------------------------------------------------------------
(* ServiceDisable *)

ServiceDisable(w, b, s, p) ==
  /\ pc[w] = "idle"
  /\ Unattended(b, s)
  /\ Rows(b, s) = {<<b, s, p>>}
  /\ job' = [job EXCEPT ![w] = <<b, s>>]
  /\ port' = [port EXCEPT ![w] = p]
  /\ Goto(w, "disable")
  /\ UNCHANGED <<tables, view, file, ghosts>>

DisabledOnBoard(w) ==
  /\ pc[w] = "disable"
  /\ Goto(w, "append")
  /\ UNCHANGED <<tables, locals, ghosts>>

(* Mutant: the port goes back to the list whatever the board answers. *)
DisableFailsAppend(w) ==
  /\ pc[w] = "disable"
  /\ free' = [free EXCEPT ![port[w]] = @ + 1]
  /\ Finish(w)
  /\ UNCHANGED <<exposed, allow, ghosts>>

(* The board is offline or fails: the operation raises, nothing has changed. *)
DisableFails(w) ==
  /\ pc[w] = "disable"
  /\ Finish(w)
  /\ UNCHANGED <<tables, ghosts>>

(* SERVICE_PORT_LIST.append(exposed.public_port) *)
Append(w) ==
  /\ pc[w] = "append"
  /\ free' = [free EXCEPT ![port[w]] = @ + 1]
  /\ Goto(w, "destroy")
  /\ UNCHANGED <<exposed, allow, locals, ghosts>>

(* exposed.destroy() *)
Destroy(w) ==
  /\ pc[w] = "destroy"
  /\ exposed' = exposed \ {<<job[w][1], job[w][2], port[w]>>}
  /\ Goto(w, "del_read")
  /\ UNCHANGED <<free, allow, locals, ghosts>>

-----------------------------------------------------------------------------
(* The conductor restarts: its threads and its list are gone. A write of    *)
(* the agent is over by then.                                               *)
Restart ==
  /\ restarts < MaxRestarts
  /\ \A w \in Workers : pc[w] \notin {"add_write", "del_write"}
  /\ restarts' = restarts + 1
  /\ free' = [p \in Ports |-> 0]
  /\ pc' = [w \in Workers |-> "idle"]
  /\ job' = [w \in Workers |-> NULL]
  /\ port' = [w \in Workers |-> NULL]
  /\ view' = [w \in Workers |-> {}]
  /\ file' = [w \in Workers |-> {}]
  /\ leftover' = leftover \cup (allow \cap
       {Node(w) : w \in {u \in Workers : pc[u] \in {"enable", "record", "del_read"}}})
  /\ reused' = reused \cup {port[w] : w \in {u \in Workers : pc[u] = "destroy"}}
  /\ UNCHANGED <<exposed, allow, clobbered, retaken>>

Step(w) ==
  \/ CheckList(w) \/ ReadUsed(w) \/ Refill(w) \/ (\E p \in Ports : Choose(w, p))
  \/ NotEnoughPort(w) \/ Take(w) \/ AddRead(w) \/ AddWrite(w)
  \/ EnabledOnBoard(w) \/ EnableFails(w) \/ Record(w)
  \/ DisabledOnBoard(w) \/ DisableFails(w) \/ Append(w) \/ Destroy(w)
  \/ RemoveRead(w) \/ RemoveWrite(w) \/ AgentUnreachable(w)

Next ==
  \/ \E w \in Workers, b \in Boards, s \in Services :
       ServiceEnable(w, b, s) \/ \E p \in Ports : ServiceDisable(w, b, s, p)
  \/ \E w \in Workers : Step(w)
  \/ Restart

Spec == Init /\ [][Next]_vars

-----------------------------------------------------------------------------
(* Properties. *)

(* Two services never share a public port, unless one of them is being      *)
(* disabled: its port is back in the list before its row is gone. Excluded: *)
(* a port that was in use when the list was rebuilt with it, or whose       *)
(* disable a restart caught between the list and the row.                   *)
NoSharedPort ==
  \A e, f \in exposed : e # f /\ e[3] = f[3] /\ e[3] \notin reused =>
    \E w \in Workers : pc[w] = "destroy" /\ job[w] \in {<<e[1], e[2]>>, <<f[1], f[2]>>}

(* With the same exclusions, the list holds a port at most once, and not     *)
(* while a service uses it or is about to.                                   *)
FreeIsUnused ==
  \A p \in Ports \ reused :
    /\ free[p] <= 1
    /\ free[p] = 1 => /\ p \notin Held
                      /\ \A e \in exposed : e[3] = p =>
                           \E w \in Workers : pc[w] = "destroy" /\ port[w] = p

(* What the allow list is for: an exposed service is in it whenever no       *)
(* operation is running. It is not so: disable puts the port back in the     *)
(* list before it removes the entry, and another service of the board may    *)
(* have taken the port, and found the entry there, meanwhile.                *)
ExposedIsAllowed ==
  (clobbered = {} /\ \A w \in Workers : pc[w] = "idle") =>
    \A e \in exposed : <<e[1], e[3]>> \in allow

(* An exposed service has its entry in every state, also while other         *)
(* services of its board are enabled and disabled, except where its port was *)
(* taken while the board still used it, or two threads met in the file and   *)
(* lost that very entry.                                                     *)
ExposedKeepsEntry ==
  \A e \in exposed : <<e[1], e[3]>> \in allow \cup clobbered \cup retaken

(* The allow list lets a board use a port only while it has a service        *)
(* exposed on it or an operation is running for it, unless an operation      *)
(* failed halfway or two threads met in the file and brought that very entry *)
(* back.                                                                     *)
AllowedIsExposed ==
  \A n \in allow \ clobbered :
    \/ \E e \in exposed : n = <<e[1], e[3]>>
    \/ \E w \in Workers : pc[w] # "idle" /\ n = Node(w)
    \/ n \in leftover
=============================================================================
