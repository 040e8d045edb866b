------------------------------ MODULE Registry ------------------------------
(***************************************************************************)
(* How the processes of Iotronic come and go: the conductor and the WAMP   *)
(* agents register in a table when they start and unregister when they are *)
(* interrupted; a conductor waits for a registration agent before it       *)
(* serves. Nothing else tells who runs: the heartbeats (touch_conductor,   *)
(* touch_wampagent) are called by nobody.                                  *)
(*                                                                         *)
(* Several processes of a host are one after the other, except that a new  *)
(* one may start while the old one is still stopping.                      *)
(***************************************************************************)
EXTENDS Naturals, FiniteSets

CONSTANTS
  Agents,     \* hosts of WAMP agents
  Conductor,  \* the host of the conductor
  Procs,      \* processes of a host
  Urls,       \* addresses of routers
  NULL,
  Budgets     \* what may happen in a behaviour: events and calls

AgentRows == [online : BOOLEAN, ragent : BOOLEAN, wsurl : Urls]

ASSUME RegistryAssumption ==
  /\ Agents # {} /\ Procs # {} /\ Urls # {}
  /\ Conductor \notin Agents
  /\ NULL \notin BOOLEAN \cup Agents \cup AgentRows
  /\ Budgets \subseteq [events : Nat, toggles : Nat, calls : Nat]

Hosts == Agents \cup {Conductor}

VARIABLES
  conductors,  \* the row of the conductor: online, not online, or NULL
  wampagents,  \* the rows of the agents: [online, ragent, wsurl], or NULL
  proc,        \* where each process of each host is
  found,       \* the registration agent a conductor has found
  conf,        \* the configuration of each agent: [ragent, wsurl]
  budget,
  fate         \* ghost: killed and overlapped hosts

registry == <<conductors, wampagents, proc, found, conf>>

Steps(h) == IF h = Conductor THEN {"register", "again", "look", "serve", "stop", "off"}
            ELSE {"register", "again", "flag", "run", "stop", "off"}

InitRegistry ==
  /\ conductors = NULL
  /\ wampagents = [a \in Agents |-> NULL]
  /\ proc = [h \in Hosts |-> [p \in Procs |-> "off"]]
  /\ found = [p \in Procs |-> NULL]
  /\ \E a \in Agents, u \in Urls : conf = [b \in Agents |-> [ragent |-> b = a, wsurl |-> u]]
  /\ budget \in Budgets
  /\ fate = [killed |-> {}, overlap |-> {}]

Online(a)      == wampagents[a] # NULL /\ wampagents[a].online
Advertises(a)  == Online(a) /\ wampagents[a].ragent
Goto(h, p, at) == proc' = [proc EXCEPT ![h][p] = at]
Event          == budget.events > 0 /\ budget' = [budget EXCEPT !.events = @ - 1]

(* Where a process is past its registration, and not yet stopping. *)
Up == {"look", "serve", "flag", "run"}

-----------------------------------------------------------------------------
(* main(): a process starts, unless another one of its host is at work. *)
Start(h, p) ==
  /\ Event
  /\ proc[h][p] = "off"
  /\ \A q \in Procs : proc[h][q] \in {"off", "stop"}
  /\ Goto(h, p, "register")
  /\ UNCHANGED <<conductors, wampagents, found, conf, fate>>

(* A host has a row for a process that runs. *)
Registered(h) == fate' = [killed |-> fate.killed \ {h}, overlap |-> fate.overlap \ {h}]

(* register_conductor raises if the row is online already. *)
RegisterConductor(p) ==
  /\ proc[Conductor][p] = "register"
  /\ IF conductors = TRUE
     THEN Goto(Conductor, p, "again") /\ UNCHANGED <<conductors, fate>>
     ELSE Goto(Conductor, p, "look") /\ conductors' = TRUE /\ Registered(Conductor)
  /\ UNCHANGED <<wampagents, found, conf, budget>>

(* except ConductorAlreadyRegistered: register with update_existing *)
UpdateConductor(p) ==
  /\ proc[Conductor][p] = "again"
  /\ conductors' = TRUE
  /\ Goto(Conductor, p, "look")
  /\ Registered(Conductor)
  /\ UNCHANGED <<wampagents, found, conf, budget>>

(* query.one(): none makes the conductor wait, several kill it. *)
GetRegistrationAgent == {a \in Agents : Advertises(a)}

FindRegistrationAgent(p) ==
  /\ proc[Conductor][p] = "look"
  /\ GetRegistrationAgent # {}
  /\ IF Cardinality(GetRegistrationAgent) = 1
     THEN /\ \E a \in GetRegistrationAgent :
               found' = [found EXCEPT ![p] = [host |-> a, wsurl |-> wampagents[a].wsurl]]
          /\ Goto(Conductor, p, "serve")
          /\ UNCHANGED fate
     ELSE /\ Goto(Conductor, p, "off")
          /\ fate' = [fate EXCEPT !.killed = @ \cup {Conductor}]
          /\ UNCHANGED found
  /\ UNCHANGED <<conductors, wampagents, conf, budget>>

-----------------------------------------------------------------------------
(* The first call raises if the row is online already; the second follows   *)
(* in either case.                                                          *)
RegisterAgent(a, p) ==
  /\ proc[a][p] = "register"
  /\ wampagents' = IF Online(a) THEN wampagents
       ELSE [wampagents EXCEPT ![a] =
              [online |-> TRUE, wsurl |-> conf[a].wsurl,
               ragent |-> IF @ = NULL THEN FALSE ELSE @.ragent]]
  /\ Goto(a, p, "again")
  /\ UNCHANGED <<conductors, found, conf, budget, fate>>

(* Mutant: one call is thought to be enough. *)
UpdateAgentNot(a, p) ==
  /\ proc[a][p] = "again"
  /\ Goto(a, p, "flag")
  /\ UNCHANGED <<conductors, wampagents, found, conf, budget, fate>>

UpdateAgent(a, p) ==
  /\ proc[a][p] = "again"
  /\ wampagents' = [wampagents EXCEPT ![a].online = TRUE, ![a].wsurl = conf[a].wsurl]
  /\ Goto(a, p, "flag")
  /\ Registered(a)
  /\ UNCHANGED <<conductors, found, conf, budget>>

(* self.wampagent.ragent = CONF.wamp.register_agent; save() *)
SaveRagent(a, p) ==
  /\ proc[a][p] = "flag"
  /\ wampagents' = [wampagents EXCEPT ![a].ragent = conf[a].ragent]
  /\ Goto(a, p, "run")
  /\ UNCHANGED <<conductors, found, conf, budget, fate>>

-----------------------------------------------------------------------------
(* SIGINT. Until a process serves, stop_handler has no server to stop: it   *)
(* raises, and the process ends without unregistering.                      *)
Interrupt(h, p) ==
  /\ Event
  /\ proc[h][p] \notin {"off", "stop"}
  /\ IF proc[h][p] \in {"serve", "run"}
     THEN Goto(h, p, "stop") /\ UNCHANGED fate
     ELSE Goto(h, p, "off") /\ fate' = [fate EXCEPT !.killed = @ \cup {h}]
  /\ UNCHANGED <<conductors, wampagents, found, conf>>

(* A process is done with stopping while another one is up. *)
Overlaps(h, p) == \E q \in Procs \ {p} : proc[h][q] \in Up

(* Mutant: only the conductor unregisters. *)
SetNotOnlineConductor(h) ==
  conductors' = (IF h = Conductor THEN FALSE ELSE conductors) /\ UNCHANGED wampagents

(* The row of the host is no longer online, whoever made it so.             *)
UnregisterConductor    == conductors' = FALSE /\ UNCHANGED wampagents
UnregisterWampagent(a) == wampagents' = [wampagents EXCEPT ![a].online = FALSE] /\ UNCHANGED conductors

(* No row that is online is no error. *)
SetNotOnline(h) == IF h = Conductor THEN UnregisterConductor ELSE UnregisterWampagent(h)

(* del_host and os._exit *)
Unregister(h, p) ==
  /\ proc[h][p] = "stop"
  /\ SetNotOnline(h)
  /\ Goto(h, p, "off")
  /\ fate' = [fate EXCEPT !.overlap = IF Overlaps(h, p) THEN @ \cup {h} ELSE @]
  /\ UNCHANGED <<found, conf, budget>>

(* SIGKILL, or the host goes down. *)
Kill(h, p) ==
  /\ Event
  /\ proc[h][p] # "off"
  /\ Goto(h, p, "off")
  /\ fate' = [fate EXCEPT !.killed = @ \cup {h}]
  /\ UNCHANGED <<conductors, wampagents, found, conf>>

(* The operator edits the configuration of an agent that does not run. *)
Reconfigure(a) ==
  /\ Event
  /\ \A p \in Procs : proc[a][p] = "off"
  /\ \E r \in BOOLEAN, u \in Urls : conf' = [conf EXCEPT ![a] = [ragent |-> r, wsurl |-> u]]
  /\ UNCHANGED <<conductors, wampagents, proc, found, fate>>

ConductorStep(p) == RegisterConductor(p) \/ UpdateConductor(p) \/ FindRegistrationAgent(p)
AgentStep(a, p)  == RegisterAgent(a, p) \/ UpdateAgent(a, p) \/ SaveRagent(a, p)

NextRegistry ==
  \/ \E p \in Procs : ConductorStep(p)
  \/ \E a \in Agents, p \in Procs : AgentStep(a, p)
  \/ \E h \in Hosts, p \in Procs : Start(h, p) \/ Interrupt(h, p) \/ Unregister(h, p) \/ Kill(h, p)
  \/ \E a \in Agents : Reconfigure(a)

(* A process that was started goes on; sleep() returns. *)
FairRegistry ==
  /\ \A p \in Procs : WF_registry(ConductorStep(p))
  /\ \A a \in Agents, p \in Procs : WF_registry(AgentStep(a, p))

-----------------------------------------------------------------------------
(* Properties *)

RegistryTypeOK ==
  /\ conductors \in BOOLEAN \cup {NULL}
  /\ wampagents \in [Agents -> AgentRows \cup {NULL}]
  /\ proc \in [Hosts -> [Procs -> UNION {Steps(h) : h \in Hosts}]]
  /\ \A h \in Hosts, p \in Procs : proc[h][p] \in Steps(h)
  /\ found \in [Procs -> [host : Agents, wsurl : Urls] \cup {NULL}]
  /\ conf \in [Agents -> [ragent : BOOLEAN, wsurl : Urls]]

IsOnline(h) == IF h = Conductor THEN conductors = TRUE ELSE Online(h)

(* The row of a host whose process is up is online: boards are only given   *)
(* agents that are. The exception is a predecessor that was still stopping  *)
(* and has unregistered the host behind its back.                           *)
RunningIsOnline ==
  \A h \in Hosts : (\E p \in Procs : proc[h][p] \in Up) => IsOnline(h) \/ h \in fate.overlap

(* A host without a process is not online, unless its process was killed or *)
(* was interrupted before it served: nothing ever corrects that row.        *)
OnlineIsRunning ==
  \A h \in Hosts :
    IsOnline(h) => (\E p \in Procs : proc[h][p] # "off") \/ h \in fate.killed

(* Two rows advertise a registration agent, which kills every conductor     *)
(* that starts, only if both are configured so, one was killed, or one is   *)
(* starting with the role of its last run.                                  *)
OneRegistrationAgent ==
  \A a, b \in Agents : Advertises(a) /\ Advertises(b) /\ a # b =>
    \/ conf[a].ragent /\ conf[b].ragent
    \/ \E x \in {a, b} : x \in fate.killed
                         \/ \E p \in Procs : proc[x][p] \in {"register", "again", "flag"}

(* The table tells who runs. *)
TableIsTrue == RunningIsOnline /\ OnlineIsRunning /\ OneRegistrationAgent

(* One agent is configured for registration and up, and none else says so. *)
Alone(a) ==
  /\ conf[a].ragent /\ a \notin fate.overlap
  /\ \E p \in Procs : proc[a][p] \in {"register", "again", "flag", "run"}
  /\ \A p \in Procs : proc[a][p] # "stop"
  /\ \A b \in Agents \ {a} : ~Advertises(b)

(* A conductor does not wait for ever while a registration agent is up. *)
WaitEnds ==
  \A p \in Procs, a \in Agents : <>[]Alone(a) => []<>(proc[Conductor][p] # "look")
=============================================================================
