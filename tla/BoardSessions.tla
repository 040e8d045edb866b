---------------------------- MODULE BoardSessions ----------------------------
(***************************************************************************)
(* The connectivity of the boards: the sessions table, the status of each  *)
(* board and the handlers that write them.                                 *)
(*                                                                         *)
(*   - every wamp agent has its own WAMP router and runs its handlers      *)
(*     (connection, board_on_leave, update_sessions) in the one thread of  *)
(*     its event loop;                                                     *)
(*   - stack4things.register is served by the registration agent, whose    *)
(*     loop blocks in an RPC while a conductor thread runs the handler.    *)
(*                                                                         *)
(* A step of a handler is one access to the database, so handlers of       *)
(* different threads interleave between a read and the write it decides.   *)
(* The board (Lightning-rod) and the router are external: they are         *)
(* modelled by what the handlers assume of them.                           *)
(***************************************************************************)
EXTENDS Naturals

CONSTANTS
  Boards,     \* rows of the boards table
  Agents,     \* wamp agents, each the client of its own router
  RegAgent,   \* the agent with register_agent = True
  Workers,    \* conductor threads that run registration
  Sessions,   \* WAMP session ids the routers may hand out
  NULL,
  MaxLosses   \* bound on lost agent transports and crashes

ASSUME ConstantsAssumption ==
  /\ RegAgent \in Agents
  /\ Agents \cap Workers = {}
  /\ NULL \notin Boards \cup Agents \cup Workers \cup Sessions
  /\ NULL \notin {"registered", "offline", "online"}
  /\ MaxLosses \in Nat

Threads == Agents \cup Workers

VARIABLES
  (* the database *)
  status,      \* Board.status
  agent,       \* Board.agent
  valid,       \* the sessions rows with valid = True
  (* the boards *)
  config,      \* main agent in the configuration the board has stored
  mine,        \* the session the board is using
  (* the routers *)
  owner,       \* the board that opened a session, NULL for an unused id
  router,      \* the agent whose router the session is on
  registering, \* sessions opened to register, the others open to connect
  live,        \* sessions the router lists
  called,      \* sessions that have called the agent
  calls,       \* calls sent to an agent and not yet handled
  leaves,      \* wamp.session.on_leave events not yet handled
  (* the agents and the conductor threads *)
  link,        \* how far onJoin of an agent has come
  snap,        \* answer to wamp.session.list
  pc,          \* what a thread does next
  cur,         \* the session it is handling
  old,         \* the valid session it has read
  todo,        \* old_connected, what update_sessions has left to visit
  seen,        \* the Board.status registration has read
  (* bookkeeping *)
  torn,        \* boards whose handler was killed between two writes
  met,         \* the boards whose handlers have met, by way of meeting
  late,        \* sessions connected between the router's list and its use
  losses

dbVars     == <<status, agent, valid>>
boardVars  == <<config, mine>>
routerVars == <<owner, router, registering, live, called, calls, leaves>>
linkVars   == <<link, snap>>
localVars  == <<cur, old, todo, seen>>
ghostVars  == <<torn, met, late, losses>>
vars == <<dbVars, boardVars, routerVars, linkVars, pc, localVars, ghostVars>>

Status == {"registered", "offline", "online"}
Links  == {"down", "joined", "listed", "synced"}
Labels == {"idle", "await", "invalidate_old", "create", "online", "configure",
           "sync", "invalidate", "offline"}

(* How two handlers of one board meet: one starts to read while the other   *)
(* has still to write its session, or only the status; two registrations    *)
(* run at once; a call runs beside the invalidation of a session.           *)
Meetings == {"reading", "writing", "assigning", "leaving"}

(* The type of every variable. *)
TypeOK ==
  /\ status \in [Boards -> Status]
  /\ agent \in [Boards -> Agents \cup {NULL}]
  /\ valid \subseteq Sessions
  /\ config \in [Boards -> Agents \cup {NULL}]
  /\ mine \in [Boards -> Sessions \cup {NULL}]
  /\ owner \in [Sessions -> Boards \cup {NULL}]
  /\ router \in [Sessions -> Agents \cup {NULL}]
  /\ registering \subseteq Sessions
  /\ live \subseteq Sessions
  /\ called \subseteq Sessions
  /\ calls \subseteq Sessions
  /\ leaves \subseteq Sessions
  /\ link \in [Agents -> Links]
  /\ snap \in [Agents -> SUBSET Sessions]
  /\ pc \in [Threads -> Labels]
  /\ cur \in [Threads -> Sessions \cup {NULL}]
  /\ old \in [Threads -> Sessions \cup {NULL}]
  /\ todo \in [Threads -> SUBSET Sessions]
  /\ seen \in [Threads -> Status \cup {NULL}]
  /\ torn \subseteq Boards
  /\ met \in [Meetings -> SUBSET Boards]
  /\ late \subseteq Sessions
  /\ losses \in 0 .. MaxLosses

Init ==
  /\ status = [b \in Boards |-> "registered"]
  /\ agent = [b \in Boards |-> NULL]
  /\ valid = {}
  /\ config = [b \in Boards |-> NULL]
  /\ mine = [b \in Boards |-> NULL]
  /\ owner = [s \in Sessions |-> NULL]
  /\ router = [s \in Sessions |-> NULL]
  /\ registering = {}
  /\ live = {}
  /\ called = {}
  /\ calls = {}
  /\ leaves = {}
  /\ link = [a \in Agents |-> "down"]
  /\ snap = [a \in Agents |-> {}]
  /\ pc = [t \in Threads |-> "idle"]
  /\ cur = [t \in Threads |-> NULL]
  /\ old = [t \in Threads |-> NULL]
  /\ todo = [t \in Threads |-> {}]
  /\ seen = [t \in Threads |-> NULL]
  /\ torn = {}
  /\ met = [m \in Meetings |-> {}]
  /\ late = {}
  /\ losses = 0

-----------------------------------------------------------------------------
(* State formulae. *)

ValidOf(b) == {s \in valid : owner[s] = b}

(* query.one(): a row only if the board has exactly one valid session; with *)
(* none or several it raises, and both handlers swallow the exception.      *)
ReadOne(b, s) == ValidOf(b) = {s}

Reading == {"invalidate_old", "create"}  \* a call that has yet to write its session
Writing == {"online", "configure"}       \* ... that has yet to write the status
Leaving == {"invalidate", "offline"}     \* a session is being invalidated

(* Thread t is at one of these places of a handler for board b. *)
Busy(t, b, labels) == pc[t] \in labels /\ owner[cur[t]] = b

(* t is between the first read and the last write of connection or          *)
(* registration for board b.                                                *)
InCall(t, b) == Busy(t, b, Reading \cup Writing)

(* What thread t meets when it starts a call for board b, and a handler     *)
(* when it starts to invalidate a session of b.                             *)
MetByCall(t, b) ==
  {m \in Meetings :
     \/ m = "reading"   /\ \E u \in Threads : Busy(u, b, Reading)
     \/ m = "writing"   /\ \E u \in Threads : Busy(u, b, Writing)
     \/ m = "assigning" /\ t \in Workers /\ \E u \in Workers : InCall(u, b)
     \/ m = "leaving"   /\ \E u \in Threads : Busy(u, b, Leaving)}
MetByLeave(b) == {m \in {"leaving"} : \E u \in Threads : InCall(u, b)}

Recorded(b, ways) == [m \in Meetings |-> IF m \in ways THEN met[m] \cup {b} ELSE met[m]]

Met(b) == \E m \in Meetings : b \in met[m]

-----------------------------------------------------------------------------
(* The boards and the routers. *)

(* A board opens a session: to the main agent of its configuration, or to   *)
(* the registration agent if it has none. The router may still list an      *)
(* older session of the board.                                              *)
OpenSession(b, s) ==
  /\ owner[s] = NULL
  /\ owner' = [owner EXCEPT ![s] = b]
  /\ router' = [router EXCEPT ![s] = IF config[b] = NULL THEN RegAgent ELSE config[b]]
  /\ registering' = IF config[b] = NULL THEN registering \cup {s} ELSE registering
  /\ live' = live \cup {s}
  /\ mine' = [mine EXCEPT ![b] = s]
  /\ UNCHANGED <<dbVars, config, called, calls, leaves, linkVars, pc, localVars, ghostVars>>

(* The board calls <agent>.stack4things.connection, or stack4things.register,*)
(* once on each session; calls of a board reach an agent in the order sent.  *)
(* An earlier call may still be handled: its session was lost, its RPC has   *)
(* timed out, or the board was reset.                                        *)
CallAgent(b, s) ==
  /\ s \in live
  /\ mine[b] = s
  /\ owner[s] = b
  /\ s \notin called
  /\ link[router[s]] # "down"
  /\ \A r \in calls : owner[r] = b => router[r] # router[s]
  /\ called' = called \cup {s}
  /\ calls' = calls \cup {s}
  /\ UNCHANGED <<dbVars, boardVars, owner, router, registering, live, leaves,
                 linkVars, pc, localVars, ghostVars>>

(* The router finds that the peer of s is gone and publishes on_leave. *)
DropSession(s) ==
  /\ s \in live
  /\ live' = live \ {s}
  /\ leaves' = IF link[router[s]] # "down" THEN leaves \cup {s} ELSE leaves
  /\ mine' = [b \in Boards |-> IF mine[b] = s THEN NULL ELSE mine[b]]
  /\ UNCHANGED <<dbVars, config, owner, router, registering, called, calls,
                 linkVars, pc, localVars, ghostVars>>

(* The board loses its configuration (factory reset) and will register anew. *)
FactoryReset(b) ==
  /\ config[b] # NULL
  /\ config' = [config EXCEPT ![b] = NULL]
  /\ mine' = [mine EXCEPT ![b] = NULL]
  /\ UNCHANGED <<dbVars, routerVars, linkVars, pc, localVars, ghostVars>>

-----------------------------------------------------------------------------
(* The transport between an agent and its router. *)

(* What the router had queued for agent a is lost with the transport. *)
Disconnect(a) ==
  /\ link' = [link EXCEPT ![a] = "down"]
  /\ snap' = [snap EXCEPT ![a] = {}]
  /\ calls' = {s \in calls : router[s] # a}
  /\ leaves' = {s \in leaves : router[s] # a}

ResetLocals(t) ==
  /\ cur' = [cur EXCEPT ![t] = NULL]
  /\ old' = [old EXCEPT ![t] = NULL]
  /\ todo' = [todo EXCEPT ![t] = {}]
  /\ seen' = [seen EXCEPT ![t] = NULL]

(* onDisconnect: the loop sees it between two handlers. *)
OnDisconnect(a) ==
  /\ link[a] # "down"
  /\ pc[a] = "idle"
  /\ losses < MaxLosses
  /\ losses' = losses + 1
  /\ Disconnect(a)
  /\ UNCHANGED <<dbVars, boardVars, owner, router, registering, live, called,
                 pc, localVars, torn, met, late>>

(* The process of thread t is killed in the middle of a handler. *)
Crash(t) ==
  /\ pc[t] # "idle"
  /\ losses < MaxLosses
  /\ losses' = losses + 1
  /\ torn' = IF pc[t] \in {"await", "sync"} THEN torn ELSE torn \cup {owner[cur[t]]}
  /\ pc' = [pc EXCEPT ![t] = "idle"]
  /\ ResetLocals(t)
  /\ IF t \in Agents THEN Disconnect(t) ELSE UNCHANGED <<link, snap, calls, leaves>>
  /\ UNCHANGED <<dbVars, boardVars, owner, router, registering, live, called, met, late>>

(* onJoin up to the call of wamp.session.list: subscribe and register. *)
OnJoin(a) ==
  /\ link[a] = "down"
  /\ pc[a] = "idle"
  /\ link' = [link EXCEPT ![a] = "joined"]
  /\ UNCHANGED <<dbVars, boardVars, routerVars, snap, pc, localVars, ghostVars>>

(* The router answers wamp.session.list. *)
SessionList(a) ==
  /\ link[a] = "joined"
  /\ link' = [link EXCEPT ![a] = "listed"]
  /\ snap' = [snap EXCEPT ![a] = {s \in live : router[s] = a}]
  /\ UNCHANGED <<dbVars, boardVars, routerVars, pc, localVars, ghostVars>>

-----------------------------------------------------------------------------
(* update_sessions, in the loop of agent a. *)

(* valid_list(agent): the valid sessions of the boards of this agent. *)
ValidList(a) == {s \in valid : agent[owner[s]] = a}

(* Mutant: the sessions still connected instead of the others. *)
KeepConnected(a) == ValidList(a) \cap snap[a]

(* list_db.difference(session_list) *)
OldConnected(a) == ValidList(a) \ snap[a]

(* The coroutine of onJoin resumes with the answer and reads valid_list.     *)
(* With nothing to visit it returns at once.                                 *)
UpdateSessions(a) ==
  /\ link[a] = "listed"
  /\ pc[a] = "idle"
  /\ link' = [link EXCEPT ![a] = "synced"]
  /\ snap' = [snap EXCEPT ![a] = {}]
  /\ todo' = [todo EXCEPT ![a] = OldConnected(a)]
  /\ pc' = [pc EXCEPT ![a] = IF OldConnected(a) = {} THEN "idle" ELSE "sync"]
  /\ UNCHANGED <<dbVars, boardVars, routerVars, cur, old, seen, ghostVars>>

(* SessionWP.get(elem): the session is still valid. *)
VisitOld(a, s) ==
  /\ pc[a] = "sync"
  /\ s \in todo[a] \cap valid
  /\ todo' = [todo EXCEPT ![a] = @ \ {s}]
  /\ cur' = [cur EXCEPT ![a] = s]
  /\ pc' = [pc EXCEPT ![a] = "invalidate"]
  /\ met' = Recorded(owner[s], MetByLeave(owner[s]))
  /\ UNCHANGED <<dbVars, boardVars, routerVars, linkVars, old, seen, torn, late, losses>>

(* It has been invalidated since the list was read. *)
SkipOld(a, s) ==
  /\ pc[a] = "sync"
  /\ s \in todo[a] \ valid
  /\ todo' = [todo EXCEPT ![a] = @ \ {s}]
  /\ pc' = [pc EXCEPT ![a] = IF todo[a] = {s} THEN "idle" ELSE "sync"]
  /\ UNCHANGED <<dbVars, boardVars, routerVars, linkVars, cur, old, seen, ghostVars>>

-----------------------------------------------------------------------------
(* board_on_leave, and the two writes it shares with update_sessions. *)

(* An on_leave event of session s; it follows the call made on s. *)
TakeLeave(a, s) ==
  /\ pc[a] = "idle"
  /\ s \in leaves \ calls
  /\ router[s] = a
  /\ leaves' = leaves \ {s}

(* Mutant: if old_session.valid is not looked at. *)
BoardOnLeaveAny(a, s) ==
  /\ TakeLeave(a, s)
  /\ cur' = [cur EXCEPT ![a] = s]
  /\ pc' = [pc EXCEPT ![a] = "invalidate"]
  /\ met' = Recorded(owner[s], MetByLeave(owner[s]))
  /\ UNCHANGED <<dbVars, boardVars, owner, router, registering, live, called, calls,
                 linkVars, old, todo, seen, torn, late, losses>>

BoardOnLeave(a, s) ==
  /\ TakeLeave(a, s)
  /\ s \in valid
  /\ cur' = [cur EXCEPT ![a] = s]
  /\ pc' = [pc EXCEPT ![a] = "invalidate"]
  /\ met' = Recorded(owner[s], MetByLeave(owner[s]))
  /\ UNCHANGED <<dbVars, boardVars, owner, router, registering, live, called, calls,
                 linkVars, old, todo, seen, torn, late, losses>>

(* The session is already invalid, or has no row and the exception is        *)
(* swallowed.                                                                *)
BoardOnLeaveIgnored(a, s) ==
  /\ TakeLeave(a, s)
  /\ s \notin valid
  /\ UNCHANGED <<dbVars, boardVars, owner, router, registering, live, called, calls,
                 linkVars, pc, localVars, ghostVars>>

(* old_session.valid = False; old_session.save() *)
Invalidate(a) ==
  /\ pc[a] = "invalidate"
  /\ valid' = valid \ {cur[a]}
  /\ pc' = [pc EXCEPT ![a] = "offline"]
  /\ UNCHANGED <<status, agent, boardVars, routerVars, linkVars, localVars, ghostVars>>

(* Mutant: the board is not saved. *)
SetOfflineUnsaved(a) ==
  /\ pc[a] = "offline"
  /\ torn' = torn \ {owner[cur[a]]}
  /\ cur' = [cur EXCEPT ![a] = NULL]
  /\ pc' = [pc EXCEPT ![a] = IF todo[a] = {} THEN "idle" ELSE "sync"]
  /\ UNCHANGED <<dbVars, boardVars, routerVars, linkVars, old, todo, seen, met, late, losses>>

(* board.status = OFFLINE; board.save() *)
SetOffline(a) ==
  /\ pc[a] = "offline"
  /\ status' = [status EXCEPT ![owner[cur[a]]] = "offline"]
  /\ torn' = torn \ {owner[cur[a]]}
  /\ cur' = [cur EXCEPT ![a] = NULL]
  /\ pc' = [pc EXCEPT ![a] = IF todo[a] = {} THEN "idle" ELSE "sync"]
  /\ UNCHANGED <<agent, valid, boardVars, routerVars, linkVars, old, todo, seen, met, late, losses>>

-----------------------------------------------------------------------------
(* connection (agent thread) and registration (conductor thread). *)

(* Thread t reads the valid session of b and goes on accordingly. *)
ReadOld(t, b, labels) ==
  \/ \E o \in Sessions : /\ ReadOne(b, o)
                         /\ old' = [old EXCEPT ![t] = o]
                         /\ pc' = [labels EXCEPT ![t] = "invalidate_old"]
  \/ /\ \A o \in Sessions : ~ReadOne(b, o)
     /\ pc' = [labels EXCEPT ![t] = "create"]
     /\ UNCHANGED old

Connection(a, s) ==
  /\ pc[a] = "idle"
  /\ s \in calls \ registering
  /\ router[s] = a
  /\ calls' = calls \ {s}
  /\ cur' = [cur EXCEPT ![a] = s]
  /\ ReadOld(a, owner[s], pc)
  /\ met' = Recorded(owner[s], MetByCall(a, owner[s]))
  /\ late' = IF link[a] = "listed" THEN late \cup {s} ELSE late
  /\ UNCHANGED <<dbVars, boardVars, owner, router, registering, live, called, leaves,
                 linkVars, todo, seen, torn, losses>>

(* The registration agent forwards the call and blocks; conductor thread w   *)
(* takes it.                                                                 *)
Registration(a, w, s) ==
  /\ pc[a] = "idle"
  /\ pc[w] = "idle"
  /\ s \in calls \cap registering
  /\ router[s] = a
  /\ calls' = calls \ {s}
  /\ cur' = [cur EXCEPT ![a] = s, ![w] = s]
  /\ seen' = [seen EXCEPT ![w] = status[owner[s]]]
  /\ ReadOld(w, owner[s], [pc EXCEPT ![a] = "await"])
  /\ met' = Recorded(owner[s], MetByCall(w, owner[s]))
  /\ UNCHANGED <<dbVars, boardVars, owner, router, registering, live, called, leaves,
                 linkVars, todo, torn, late, losses>>

(* The RPC of the blocked agent times out; the conductor thread goes on. *)
RpcTimeout(a) ==
  /\ pc[a] = "await"
  /\ pc' = [pc EXCEPT ![a] = "idle"]
  /\ cur' = [cur EXCEPT ![a] = NULL]
  /\ UNCHANGED <<dbVars, boardVars, routerVars, linkVars, old, todo, seen, ghostVars>>

(* Mutant: the old session is not saved. *)
InvalidateOldUnsaved(t) ==
  /\ pc[t] = "invalidate_old"
  /\ old' = [old EXCEPT ![t] = NULL]
  /\ pc' = [pc EXCEPT ![t] = "create"]
  /\ UNCHANGED <<dbVars, boardVars, routerVars, linkVars, cur, todo, seen, ghostVars>>

(* old_ses.valid = False; old_ses.save() *)
InvalidateOld(t) ==
  /\ pc[t] = "invalidate_old"
  /\ valid' = valid \ {old[t]}
  /\ old' = [old EXCEPT ![t] = NULL]
  /\ pc' = [pc EXCEPT ![t] = "create"]
  /\ UNCHANGED <<status, agent, boardVars, routerVars, linkVars, cur, todo, seen, ghostVars>>

(* Mutant: the old session is created again. *)
CreateSessionOld(t) ==
  /\ pc[t] = "create"
  /\ valid' = valid \cup {old[t]}
  /\ pc' = [pc EXCEPT ![t] = IF t \in Agents THEN "online" ELSE "configure"]
  /\ UNCHANGED <<status, agent, boardVars, routerVars, linkVars, localVars, ghostVars>>

(* session.create() *)
CreateSession(t) ==
  /\ pc[t] = "create"
  /\ valid' = valid \cup {cur[t]}
  /\ pc' = [pc EXCEPT ![t] = IF t \in Agents THEN "online" ELSE "configure"]
  /\ UNCHANGED <<status, agent, boardVars, routerVars, linkVars, localVars, ghostVars>>

(* The last write of connection. *)
SetOnline(a) ==
  /\ pc[a] = "online"
  /\ status' = [status EXCEPT ![owner[cur[a]]] = "online"]
  /\ torn' = torn \ {owner[cur[a]]}
  /\ pc' = [pc EXCEPT ![a] = "idle"]
  /\ cur' = [cur EXCEPT ![a] = NULL]
  /\ UNCHANGED <<agent, valid, boardVars, routerVars, linkVars, old, todo, seen, met, late, losses>>

(* Mutant: a board is given an agent whenever it registers. *)
AssignAgentAlways(w, b) == \E m \in Agents : agent' = [agent EXCEPT ![b] = m]

(* get_best_agent, for a board that was REGISTERED when it was read. *)
AssignAgent(w, b) ==
  IF seen[w] = "registered"
    THEN \E m \in Agents : agent' = [agent EXCEPT ![b] = m]
    ELSE UNCHANGED agent

(* The last write of registration: a board still REGISTERED when it was read *)
(* gets an agent (get_best_agent), any other only the status. The answer     *)
(* carries the configuration; it reaches the board if the agent still waits  *)
(* for it and the board still has the session, and may be lost on the way.   *)
Configure(w) ==
  LET s == cur[w]
      b == owner[s]
      awaited == pc[RegAgent] = "await" /\ cur[RegAgent] = s
  IN /\ pc[w] = "configure"
     /\ AssignAgent(w, b)
     /\ status' = [status EXCEPT ![b] = "offline"]
     /\ torn' = torn \ {b}
     /\ seen' = [seen EXCEPT ![w] = NULL]
     /\ \/ /\ awaited
           /\ pc' = [pc EXCEPT ![w] = "idle", ![RegAgent] = "idle"]
           /\ cur' = [cur EXCEPT ![w] = NULL, ![RegAgent] = NULL]
           /\ \/ mine[b] = s /\ config' = [config EXCEPT ![b] = agent'[b]]
              \/ UNCHANGED config
        \/ /\ ~awaited
           /\ pc' = [pc EXCEPT ![w] = "idle"]
           /\ cur' = [cur EXCEPT ![w] = NULL]
           /\ UNCHANGED config
     /\ UNCHANGED <<valid, mine, routerVars, linkVars, old, todo, met, late, losses>>

-----------------------------------------------------------------------------
AgentStep(a) ==
  \/ OnJoin(a)
  \/ UpdateSessions(a)
  \/ \E s \in Sessions :
       \/ VisitOld(a, s)
       \/ SkipOld(a, s)
       \/ BoardOnLeave(a, s)
       \/ BoardOnLeaveIgnored(a, s)
       \/ Connection(a, s)
  \/ Invalidate(a)
  \/ SetOffline(a)
  \/ SetOnline(a)
  \/ RpcTimeout(a)

CallStep(t) == InvalidateOld(t) \/ CreateSession(t)

WorkerStep(w) ==
  \/ \E a \in Agents, s \in Sessions : Registration(a, w, s)
  \/ Configure(w)

Next ==
  \/ \E b \in Boards, s \in Sessions : OpenSession(b, s) \/ CallAgent(b, s)
  \/ \E s \in Sessions : DropSession(s)
  \/ \E b \in Boards : FactoryReset(b)
  \/ \E a \in Agents : OnDisconnect(a) \/ SessionList(a) \/ AgentStep(a)
  \/ \E w \in Workers : WorkerStep(w)
  \/ \E t \in Threads : CallStep(t) \/ Crash(t)

Spec == Init /\ [][Next]_vars

(* A thread that runs a handler finishes it; onDisconnect starts the         *)
(* component again; the router answers, and notices in time that a peer is   *)
(* gone. Boards and losses are not fair.                                     *)
Fairness ==
  /\ \A a \in Agents : WF_vars(AgentStep(a)) /\ WF_vars(SessionList(a))
  /\ \A t \in Threads : WF_vars(CallStep(t))
  /\ \A w \in Workers : WF_vars(WorkerStep(w))
  /\ \A s \in Sessions : WF_vars(DropSession(s) /\ \A b \in Boards : mine[b] # s)

FairSpec == Spec /\ Fairness

-----------------------------------------------------------------------------
(* Properties. *)

(* Two calls of a board leave it two valid sessions only if the second was   *)
(* taken before the first had created its session: a late leave event, the   *)
(* start-up comparison, a killed handler or a call taken before the status   *)
(* of the one before is saved do not. get_session_by_board_uuid reads with   *)
(* query.one(): with two valid rows it raises for good, execute_on_board     *)
(* fails on every call and the handlers stop invalidating.                   *)
SessionsAreSingle ==
  \A s1, s2 \in valid :
    owner[s1] = owner[s2] => s1 = s2 \/ owner[s1] \in met["reading"]

(* A board keeps the agent it was first given: the one execute_on_board      *)
(* routes its calls to, and update_sessions looks for its sessions with. The *)
(* decision rests on a status read several steps before the agent is saved:  *)
(* another is given only if two registrations of the board ran at once, the  *)
(* RPC of the first having timed out, or its agent having been killed.       *)
AgentIsKept ==
  [][\A b \in Boards : agent[b] # NULL =>
       agent'[b] = agent[b] \/ b \in met["assigning"]]_vars

(* A board is ONLINE only while it has a valid session or a handler is about *)
(* to create one or to set it OFFLINE, unless a handler for it was killed    *)
(* halfway and none has completed since, or two calls of it have met.        *)
OnlineHasSession ==
  \A b \in Boards : status[b] = "online" =>
    \/ ValidOf(b) # {}
    \/ \E t \in Threads : pc[t] \in {"create", "offline"} /\ owner[cur[t]] = b
    \/ b \in torn
    \/ b \in met["reading"] \/ b \in met["writing"]

(* A valid session of a main agent that the router no longer lists is never  *)
(* forgotten: its leave event is waiting, or the agent has not yet compared  *)
(* the table with the router's list, or is invalidating the session; unless  *)
(* two registrations gave the board another agent.                           *)
DeadSessionCovered ==
  \A s \in valid \ (live \cup registering) :
    LET a == router[s]
    IN \/ s \in leaves
       \/ link[a] \in {"down", "joined"}
       \/ link[a] = "listed" /\ s \notin snap[a] /\ agent[owner[s]] = a
       \/ s \in todo[a]
       \/ pc[a] = "invalidate" /\ cur[a] = s
       \/ owner[s] \in met["assigning"]

(* A board whose main-agent session is valid and listed by the router is     *)
(* ONLINE once no handler is busy with it, whatever the agents, late leave   *)
(* events and lost transports; unless handlers for it have met: a call with  *)
(* another call, or with the invalidation of a session on another agent.     *)
ConnectedIsOnline ==
  \A s \in (valid \cap live) \ registering :
    \/ status[owner[s]] = "online"
    \/ owner[s] \in torn
    \/ Met(owner[s])
    \/ \E t \in Threads : pc[t] # "idle" /\ cur[t] # NULL /\ owner[cur[t]] = owner[s]

(* The sessions update_sessions sets out to invalidate, its "list of board   *)
(* not connected anymore", hold no main-agent session the router still lists.*)
OldConnectedIsGone ==
  [][\A a \in Agents : UpdateSessions(a) => todo'[a] \cap (live \ registering) = {}]_vars

(* A session that is live when update_sessions sets out to invalidate it was *)
(* connected after the router had answered and before update_sessions read   *)
(* the table; or its board was given another agent.                          *)
OldConnectedIsLate ==
  [][\A a \in Agents : UpdateSessions(a) =>
       \A s \in todo'[a] \cap (live \ registering) :
         s \in late \/ owner[s] \in met["assigning"]]_vars

(* A board that is gone for good does not stay ONLINE, unless a handler for  *)
(* it was killed halfway or two calls of it have met.                        *)
GoneBoardGoesOffline ==
  \A b \in Boards :
    <>[](mine[b] = NULL /\ b \notin torn /\ ~Met(b)) => <>[](status[b] # "online")
-----------------------------------------------------------------------------
(* The inductive invariant behind SessionsAreSingle, AgentIsKept and         *)
(* OnlineHasSession.                                                         *)

Assigned(b) == b \in met["assigning"]

(* Whatever refers to a session refers to one that a board has opened. *)
Ownership ==
  /\ \A s \in valid \cup live \cup calls : owner[s] \in Boards
  /\ \A b \in Boards : mine[b] # NULL => owner[mine[b]] = b
  /\ \A t \in Threads : \A s \in todo[t] :
       owner[s] \in Boards /\ (agent[owner[s]] = t \/ Assigned(owner[s]))
  /\ \A t \in Threads : pc[t] \notin {"idle", "sync"} =>
       cur[t] \in Sessions /\ owner[cur[t]] \in Boards
  /\ \A t \in Threads : pc[t] = "invalidate_old" =>
       old[t] \in Sessions /\ owner[old[t]] = owner[cur[t]]

(* Which thread runs which handler, and for which sessions. *)
Roles ==
  /\ \A w \in Workers : pc[w] \in {"idle", "invalidate_old", "create", "configure"}
  /\ \A a \in Agents :
       /\ pc[a] # "configure"
       /\ seen[a] = NULL
       /\ pc[a] \in {"invalidate_old", "create", "online"} =>
            cur[a] \notin registering /\ router[cur[a]] = a
       /\ pc[a] \in {"invalidate", "offline"} =>
            router[cur[a]] = a \/ agent[owner[cur[a]]] = a \/ Assigned(owner[cur[a]])

(* The main agent a board has been configured with is the agent its row      *)
(* names, the one execute_on_board routes its calls to.                      *)
ConfigMatchesAgent ==
  \A b \in Boards : config[b] # NULL => config[b] = agent[b] \/ Assigned(b)

(* A board gets its agent once; sessions opened to connect are on its router.*)
Routing ==
  /\ \A s \in Sessions : owner[s] # NULL =>
       /\ router[s] \in Agents
       /\ s \notin registering => router[s] = agent[owner[s]] \/ Assigned(owner[s])
  /\ \A b \in Boards : status[b] = "registered" => agent[b] = NULL
  /\ \A b \in Boards : \A t \in Threads :
       InCall(t, b) /\ seen[t] = "registered" => agent[b] = NULL \/ Assigned(b)
  /\ ConfigMatchesAgent

(* Handlers that run at once for one board have met. *)
CallsMet(b) == b \in met["reading"] \/ b \in met["writing"]

Meeting ==
  \A b \in Boards :
    /\ Assigned(b) => CallsMet(b)
    /\ \A t, u \in Threads : t # u =>
         /\ Busy(t, b, Reading) /\ Busy(u, b, Reading) => b \in met["reading"]
         /\ InCall(t, b) /\ InCall(u, b) => CallsMet(b)
         /\ InCall(t, b) /\ InCall(u, b) /\ {t, u} \subseteq Workers => Assigned(b)
         /\ Busy(t, b, Leaving) /\ InCall(u, b) => b \in met["leaving"]

(* What connection and registration know of the table between their steps. *)
Progress ==
  \A t \in Threads :
    LET b == owner[cur[t]] IN
    /\ pc[t] = "invalidate_old" => ValidOf(b) \subseteq {old[t]} \/ b \in met["reading"]
    /\ pc[t] = "create" => ValidOf(b) = {} \/ b \in met["reading"]
    /\ pc[t] = "online" => cur[t] \in valid \/ CallsMet(b)

IInv ==
  /\ TypeOK
  /\ Ownership
  /\ Roles
  /\ Routing
  /\ Meeting
  /\ Progress
  /\ SessionsAreSingle
  /\ OnlineHasSession
-----------------------------------------------------------------------------
(* What DeadSessionCovered, OldConnectedIsLate and ConnectedIsOnline rest on *)
(* besides IInv.                                                             *)

(* A call or a connection whose session is gone still has its leave event    *)
(* behind it: the agent loses its transport only between two handlers.       *)
LeaveFollows ==
  /\ \A s \in calls : link[router[s]] # "down" /\ s \in live \cup leaves
  /\ \A a \in Agents : pc[a] \in {"invalidate_old", "create"} =>
       link[a] # "down" /\ cur[a] \in live \cup leaves
  /\ \A w \in Workers : pc[w] # "idle" => cur[w] \in registering
  /\ \A a \in Agents : pc[a] \notin {"sync", "invalidate", "offline"} => todo[a] = {}

(* The router's list has every session still live that the agent has put in  *)
(* the table or is about to, but for the late ones, and what update_sessions *)
(* visits is gone or late.                                                   *)
ListIsTrue ==
  \A a \in Agents :
    /\ \A s \in todo[a] \cap (live \ registering) : s \in late \/ Assigned(owner[s])
    /\ link[a] = "listed" =>
         /\ \A s \in (valid \cap live) \ registering : router[s] = a => s \in snap[a] \cup late
         /\ pc[a] \in {"invalidate_old", "create"} /\ cur[a] \in live => cur[a] \in snap[a] \cup late

(* A handler about to set a board OFFLINE leaves no connected session behind.*)
OfflineIsRight ==
  /\ \A s \in leaves : s \notin live /\ owner[s] \in Boards
  /\ \A w \in Workers : pc[w] = "configure" =>
       ValidOf(owner[cur[w]]) \subseteq {cur[w]} \/ Met(owner[cur[w]])
  /\ \A a \in Agents : pc[a] = "invalidate" =>
       ValidOf(owner[cur[a]]) \subseteq {cur[a]} \/ Met(owner[cur[a]])
  /\ \A a \in Agents : pc[a] = "offline" =>
       ValidOf(owner[cur[a]]) = {} \/ Met(owner[cur[a]])

(* ConnectedIsOnline, with the handlers that may be busy with the board.     *)
ConnectedOrInCall ==
  \A s \in (valid \cap live) \ registering :
    \/ status[owner[s]] = "online"
    \/ owner[s] \in torn
    \/ Met(owner[s])
    \/ \E t \in Threads : InCall(t, owner[s])

ConnInv ==
  /\ DeadSessionCovered
  /\ LeaveFollows
  /\ ListIsTrue
  /\ OfflineIsRight
  /\ ConnectedOrInCall
=============================================================================
