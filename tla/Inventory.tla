----------------------------- MODULE Inventory -----------------------------
(***************************************************************************)
(* The inventory of Iotronic: boards, locations, fleets, plugins, services *)
(* and what ties them together, as the REST controllers, the conductor and *)
(* the database change them.                                               *)
(*                                                                         *)
(* A call starts in a controller, which reads rows, checks and sends a     *)
(* message to the conductor; the conductor handles it in a thread, with a  *)
(* transaction for each access to the database and calls on the board and  *)
(* its agent in between. Calls of several clients interleave at each step. *)
(***************************************************************************)
EXTENDS Objects, Naturals, FiniteSets

CONSTANTS
  Clients,
  Boards, Plugins, Fleets, Services,  \* uuids
  Names,                              \* of boards
  Ports,                              \* public ports
  NULL,
  Mixes,       \* each behaviour has calls of the kinds in one of these sets
  MaxCalls,    \* bound on calls of the API
  MaxToggles,  \* bound on connections and disconnections of boards
  MaxCrashes   \* bound on crashes of the conductor

ASSUME InventoryAssumption ==
  /\ NULL \notin Fleets \cup Services \cup Ports \cup Boards
  /\ \A set \in {Boards, Plugins, Fleets, Services, Names} : set # {}
  /\ {MaxCalls, MaxToggles, MaxCrashes} \subseteq Nat

VARIABLES
  rows,        \* the tables boards, plugins, fleets and services, by uuid
  located,     \* boards with a row in locations
  injections,  \* rows of injection_plugins: [id, board, plugin, status]
  exposed,     \* rows of exposed_services: [board, service, port]
  born,        \* uuids given so far, by table
  installed,   \* the plugins in the memory of each board
  allowed,     \* allow list of the agent: <<board, port>>
  free,        \* public ports not handed out
  calls,       \* the call of each client
  mix,
  spent,       \* what is left of the bounds is compared with this
  story        \* ghost: what happened that excuses a disagreement

tables == <<rows, located, injections, exposed, born>>
device == <<installed, allowed, free>>
vars   == <<tables, device, calls, mix, spent, story>>

Tables == {"boards", "plugins", "fleets", "services"}
Uuids(t) == CASE t = "boards" -> Boards [] t = "plugins" -> Plugins
              [] t = "fleets" -> Fleets [] t = "services" -> Services
Status  == {"registered", "online", "offline"}
Results == {"SUCCESS", "ERROR"}
Pairs   == Boards \X Plugins

Columns(t) == IF t = "boards" THEN {"name", "status", "fleet"} ELSE {"name", "extra"}
Row(t)  == IF t = "boards" THEN [name : Names, status : Status, fleet : Fleets \cup {NULL}]
           ELSE [name : Names, extra : BOOLEAN]
Injections == [id : Nat, board : Boards, plugin : Plugins, status : {"injected", "updated"}]
Exposures  == [board : Boards, service : Services, port : Ports]

(* A call of the API: what it does, how far its handler is, the object in its *)
(* message or what it works on.                                             *)
Labels == {"check", "insert", "locate", "save", "destroy", "read", "execute", "list", "allow",
           "invoke", "lookup", "record", "orphan"}
PluginOps == {"injectPlugin", "removePlugin"}
CreateBoards ==
  [op : {"createBoard"}, at : Labels, id : Boards \cup {NULL},
   msg : [data : [name : Names, fleet : Fleets \cup {NULL}], changes : {{"name", "fleet"}}]]
UpdateBoards ==
  [op : {"updateBoard"}, at : Labels, id : Boards, asked : SUBSET Columns("boards"),
   msg : [data : Row("boards"), changes : SUBSET Columns("boards")]]
DestroyBoards ==
  [op : {"destroyBoard"}, at : Labels, board : Boards, list : SUBSET Exposures,
   seen : SUBSET Exposures]
CreateRows ==
  [op : {"createPlugin", "createService", "createFleet"}, at : Labels,
   msg : [data : Row("plugins"), changes : {Columns("plugins")}]]
UpdateRows(op, ids) ==
  [op : {op}, at : Labels, id : ids,
   msg : [data : Row("plugins"), changes : SUBSET Columns("plugins")]]
DestroyRows(op, ids) == [op : {op}, at : Labels, id : ids]
PluginCalls ==
  [op : PluginOps \cup {"actionPlugin"}, at : Labels, plugin : Plugins, board : Boards,
   row : Nat \cup {NULL}, result : Results \cup {NULL}]
EnableCalls ==
  [op : {"enableService"}, at : Labels, service : Services, board : Boards,
   port : Ports \cup {NULL}]
Calls ==
  CreateBoards \cup UpdateBoards \cup DestroyBoards \cup CreateRows \cup PluginCalls
  \cup EnableCalls \cup UpdateRows("updatePlugin", Plugins)
  \cup UpdateRows("updateService", Services) \cup UpdateRows("updateFleet", Fleets)
  \cup DestroyRows("destroyPlugin", Plugins) \cup DestroyRows("destroyService", Services)
  \cup DestroyRows("destroyFleet", Fleets)

(* What may happen to a plugin on a board that excuses a disagreement. *)
Marks == {"lost", "crossed", "failed", "reset", "twice"}
Stories == [pairs : [Pairs -> SUBSET Marks], clash : SUBSET Names,
            cut : SUBSET (Boards \cup {NULL}), stray : SUBSET (Ports \cup {NULL})]

ASSUME NullAssumption ==
  /\ NULL \notin Nat \cup Names \cup Injections \cup Calls
  /\ \A t \in Tables : NULL \notin Row(t)

Exists(t, id) == rows[t][id] # NULL
Online(b) == Exists("boards", b) /\ rows.boards[b].status = "online"
Busy(c, op, at) == calls[c] # NULL /\ calls[c].op = op /\ calls[c].at = at

(* The database at the start holds what earlier calls have left there: one *)
(* board that is connected, a plugin, a fleet and a service.               *)
First(t) == CHOOSE id \in Uuids(t) : TRUE
Init ==
  /\ LET n == CHOOSE n \in Names : TRUE IN
       rows = [t \in Tables |-> [id \in Uuids(t) |->
                 IF id # First(t) THEN NULL
                 ELSE IF t = "boards" THEN [name |-> n, status |-> "online", fleet |-> NULL]
                 ELSE [name |-> n, extra |-> FALSE]]]
  /\ located = {First("boards")}
  /\ injections = {}
  /\ exposed = {}
  /\ born = [t \in Tables |-> {First(t)}]
  /\ installed = [b \in Boards |-> {}]
  /\ allowed = {}
  /\ free = Ports
  /\ calls = [c \in Clients |-> NULL]
  /\ mix \in Mixes
  /\ spent = [calls |-> 0, toggles |-> 0, crashes |-> 0, serial |-> 1]
  /\ story = [pairs |-> [p \in Pairs |-> {}], clash |-> {}, cut |-> {}, stray |-> {}]

-----------------------------------------------------------------------------
(* Clients and messages *)

(* A client without a call may start one of this kind. *)
Idle(c, op) == calls[c] = NULL /\ op \in mix /\ spent.calls < MaxCalls

(* A controller sends a message to the conductor. *)
Send(c, m) ==
  /\ spent' = [spent EXCEPT !.calls = @ + 1]
  /\ calls' = [calls EXCEPT ![c] = m]
  /\ UNCHANGED <<tables, device, mix, story>>

(* The handler answers or raises: the call is over. *)
Return(c) == calls' = [calls EXCEPT ![c] = NULL]
Goto(c, at) == calls' = [calls EXCEPT ![c].at = at]

(* Lookups by uuid or by name; one() raises unless there is exactly one. *)
ByUuid(t, u) == {id \in Uuids(t) \cap {u} : Exists(t, id)}
ByName(t, n) == {id \in Uuids(t) : Exists(t, id) /\ rows[t][id].name = n}

GetRpcBoard(ident)   == ByUuid("boards", ident) \cup ByName("boards", ident)
GetRpcPlugin(ident)  == ByUuid("plugins", ident) \cup ByName("plugins", ident)
GetRpcFleet(ident)   == ByUuid("fleets", ident) \cup ByName("fleets", ident)
GetRpcService(ident) == ByUuid("services", ident) \cup ByName("services", ident)

BoardOf(b)   == \E i \in Boards \cup Names : GetRpcBoard(i) = {b}
PluginOf(p)  == \E i \in Plugins \cup Names : GetRpcPlugin(i) = {p}
FleetOf(f)   == \E i \in Fleets \cup Names : GetRpcFleet(i) = {f}
ServiceOf(s) == \E i \in Services \cup Names : GetRpcService(i) = {s}
-----------------------------------------------------------------------------
(* Messages of the conductor's RPC client *)
RpcCreateBoard(o)     == [op |-> "createBoard", at |-> "check", msg |-> ToPrimitive(o), id |-> NULL]
RpcUpdateBoard(b, o)  == [op |-> "updateBoard", at |-> "save", msg |-> ToPrimitive(o), id |-> b]
RpcDestroyBoard(b)    == [op |-> "destroyBoard", at |-> "read", board |-> b, list |-> {}, seen |-> {}]
RpcCreatePlugin(o)    == [op |-> "createPlugin", at |-> "insert", msg |-> ToPrimitive(o)]
RpcUpdatePlugin(p, o) == [op |-> "updatePlugin", at |-> "save", msg |-> ToPrimitive(o), id |-> p]
RpcDestroyPlugin(p)   == [op |-> "destroyPlugin", at |-> "destroy", id |-> p]
RpcInjectPlugin(p, b) == [op |-> "injectPlugin", at |-> "read", plugin |-> p, board |-> b,
                          row |-> NULL, result |-> NULL]
RpcRemovePlugin(p, b) == [RpcInjectPlugin(p, b) EXCEPT !.op = "removePlugin"]
RpcActionPlugin(p, b) == [RpcInjectPlugin(p, b) EXCEPT !.op = "actionPlugin"]
RpcCreateService(o)     == [op |-> "createService", at |-> "insert", msg |-> ToPrimitive(o)]
RpcUpdateService(s, o)  == [op |-> "updateService", at |-> "save", msg |-> ToPrimitive(o), id |-> s]
RpcDestroyService(s)    == [op |-> "destroyService", at |-> "destroy", id |-> s]
RpcActionService(s, b)  == [op |-> "enableService", at |-> "read", service |-> s, board |-> b,
                            port |-> NULL]
RpcCreateFleet(o)     == [op |-> "createFleet", at |-> "insert", msg |-> ToPrimitive(o)]
RpcUpdateFleet(f, o)  == [op |-> "updateFleet", at |-> "save", msg |-> ToPrimitive(o), id |-> f]
RpcDestroyFleet(f)    == [op |-> "destroyFleet", at |-> "destroy", id |-> f]

-----------------------------------------------------------------------------
(* Controllers *)

(* What a request body may assign: here one column at a time. *)
Assignments(t) ==
  IF t = "boards" THEN [{"name"} -> Names] \cup [{"fleet"} -> Fleets \cup {NULL}]
  ELSE [{"name"} -> Names] \cup [{"extra"} -> BOOLEAN]

(* The row read by the controller, with the body assigned field by field. *)
Patched(t, id, body) == Update(FromDbObject(rows[t][id]), body)

PostBoard(c) == Idle(c, "createBoard") /\
  \E n \in Names, f \in Fleets \cup {NULL} :
    Send(c, RpcCreateBoard(NewObject([name |-> n, fleet |-> f])))

PatchBoard(c) == Idle(c, "updateBoard") /\
  \E b \in Boards, body \in Assignments("boards") :
    /\ BoardOf(b)
    /\ Send(c, Over([asked |-> DOMAIN body], RpcUpdateBoard(b, Patched("boards", b, body))))

DeleteBoard(c) == Idle(c, "destroyBoard") /\
  \E b \in Boards : BoardOf(b) /\ Send(c, RpcDestroyBoard(b))

PostPlugin(c) == Idle(c, "createPlugin") /\
  \E n \in Names : Send(c, RpcCreatePlugin(NewObject([name |-> n, extra |-> FALSE])))

PatchPlugin(c) == Idle(c, "updatePlugin") /\
  \E p \in Plugins, body \in Assignments("plugins") :
    PluginOf(p) /\ Send(c, RpcUpdatePlugin(p, Patched("plugins", p, body)))

DeletePlugin(c) == Idle(c, "destroyPlugin") /\
  \E p \in Plugins : PluginOf(p) /\ Send(c, RpcDestroyPlugin(p))

PostService(c) == Idle(c, "createService") /\
  \E n \in Names : Send(c, RpcCreateService(NewObject([name |-> n, extra |-> FALSE])))

PatchService(c) == Idle(c, "updateService") /\
  \E s \in Services, body \in Assignments("services") :
    ServiceOf(s) /\ Send(c, RpcUpdateService(s, Patched("services", s, body)))

DeleteService(c) == Idle(c, "destroyService") /\
  \E s \in Services : ServiceOf(s) /\ Send(c, RpcDestroyService(s))

PostFleet(c) == Idle(c, "createFleet") /\
  \E n \in Names : Send(c, RpcCreateFleet(NewObject([name |-> n, extra |-> FALSE])))

PatchFleet(c) == Idle(c, "updateFleet") /\
  \E f \in Fleets, body \in Assignments("fleets") :
    FleetOf(f) /\ Send(c, RpcUpdateFleet(f, Patched("fleets", f, body)))

DeleteFleet(c) == Idle(c, "destroyFleet") /\
  \E f \in Fleets : FleetOf(f) /\ Send(c, RpcDestroyFleet(f))

(* check_if_online is on the row the controller has read. *)
PutInjection(c) == Idle(c, "injectPlugin") /\
  \E b \in Boards, p \in Plugins :
    BoardOf(b) /\ PluginOf(p) /\ Online(b) /\ Send(c, RpcInjectPlugin(p, b))

DeleteInjection(c) == Idle(c, "removePlugin") /\
  \E b \in Boards, p \in Plugins :
    BoardOf(b) /\ PluginOf(p) /\ Online(b) /\ Send(c, RpcRemovePlugin(p, b))

PostPluginAction(c) == Idle(c, "actionPlugin") /\
  \E b \in Boards, p \in Plugins :
    BoardOf(b) /\ PluginOf(p) /\ Online(b) /\ Send(c, RpcActionPlugin(p, b))

PostServiceAction(c) == Idle(c, "enableService") /\
  \E b \in Boards, s \in Services :
    BoardOf(b) /\ ServiceOf(s) /\ Online(b) /\ Send(c, RpcActionService(s, b))

-----------------------------------------------------------------------------
(* Transactions *)

(* Foreign keys of a row of boards; the other three tables have none. *)
FleetExists(t, row) == t = "boards" /\ row.fleet # NULL => Exists("fleets", row.fleet)

(* INSERT with a new uuid. *)
Insert(t, id, row) ==
  /\ id \notin born[t]
  /\ born' = [born EXCEPT ![t] = @ \cup {id}]
  /\ rows' = [rows EXCEPT ![t][id] = row]

(* create_board fills in the status. *)
BoardRow(values) == Over(values, [status |-> "registered"])

(* _do_update_...: lock the row, assign the changed columns; raises if there *)
(* is no row or a foreign key does not hold.                                *)
CanUpdate(t, id, o) == Exists(t, id) /\ FleetExists(t, Saved(rows[t][id], o))
UpdateRow(t, id, o) == rows' = [rows EXCEPT ![t][id] = Saved(@, o)]
DeleteRow(t, id)    == rows' = [rows EXCEPT ![t][id] = NULL]

(* plugin_uuid, service_uuid and fleet have no ON DELETE: they restrict. *)
PluginInUse(p)  == \E i \in injections : i.plugin = p
ServiceInUse(s) == \E e \in exposed : e.service = s
FleetInUse(f)   == \E b \in Boards : Exists("boards", b) /\ rows.boards[b].fleet = f

(* destroy_board: the locations by hand, the rest ON DELETE CASCADE. *)
DestroyBoardRow(b) ==
  /\ DeleteRow("boards", b)
  /\ located' = located \ {b}
  /\ injections' = {i \in injections : i.board # b}
  /\ exposed' = {e \in exposed : e.board # b}
  /\ UNCHANGED born

CreatePluginRow(p, row)  == Insert("plugins", p, row)
CreateServiceRow(s, row) == Insert("services", s, row)
CreateFleetRow(f, row)   == Insert("fleets", f, row)

UpdateEntityRow(t, id, o) ==
  (IF CanUpdate(t, id, o) THEN UpdateRow(t, id, o) ELSE UNCHANGED rows) /\ UNCHANGED born
UpdatePluginRow(p, o)  == UpdateEntityRow("plugins", p, o)
UpdateServiceRow(s, o) == UpdateEntityRow("services", s, o)
UpdateFleetRow(f, o)   == UpdateEntityRow("fleets", f, o)

DestroyEntityRow(t, id, inUse) ==
  (IF inUse THEN UNCHANGED rows ELSE DeleteRow(t, id)) /\ UNCHANGED born
DestroyPluginRow(p)  == DestroyEntityRow("plugins", p, PluginInUse(p))
DestroyServiceRow(s) == DestroyEntityRow("services", s, ServiceInUse(s))
DestroyFleetRow(f)   == DestroyEntityRow("fleets", f, FleetInUse(f))

RowsOf(b, p) == {i \in injections : i.board = b /\ i.plugin = p}
ExposedOf(b, s) == {e \in exposed : e.board = b /\ e.service = s}

(* get_injection_plugin_by_uuids: one() raises on none and on several. *)
InjectionByUuids(b, p) == LET r == RowsOf(b, p) IN
  IF \E i \in r : r = {i} THEN CHOOSE i \in r : TRUE ELSE NULL

-----------------------------------------------------------------------------
(* What is left behind when the handlers of the clients in set are cut off. *)
(* A ghost: nothing in the code records it.                                 *)
Cut(set) ==
  LET Ends(op, at) == {c \in set : calls[c] # NULL /\ calls[c].op = op /\ calls[c].at \in at}
      undone == {c \in UNION {Ends(op, {"lookup", "record"}) : op \in PluginOps} :
                   calls[c].result = "SUCCESS"}
      hanging == Ends("enableService", {"allow", "execute", "invoke", "record"})
  IN [story EXCEPT
        !.pairs = [q \in Pairs |-> @[q] \cup
           IF \E c \in undone : q = <<calls[c].board, calls[c].plugin>> THEN {"lost"} ELSE {}],
        !.cut   = @ \cup {calls[c].id : c \in Ends("createBoard", {"locate"})},
        !.stray = @ \cup {calls[c].port : c \in hanging}]

(* The handler raises. *)
Raise(c) == Return(c) /\ story' = Cut({c})

-----------------------------------------------------------------------------
(* Boards in the conductor *)

(* The object in the message of a call. *)
Sent(c) == FromPrimitive(calls[c].msg)

(* exists_by_name: BoardNameAlreadyExists, or MultipleResultsFound. *)
ExistsByName(n) == ByName("boards", n) # {}

(* Mutant: the name is not looked for. *)
CheckNameNot(c) ==
  /\ Busy(c, "createBoard", "check")
  /\ Goto(c, "insert")
  /\ UNCHANGED <<tables, device, mix, spent, story>>

CheckName(c) ==
  /\ Busy(c, "createBoard", "check")
  /\ IF ExistsByName(calls[c].msg.data.name) THEN Return(c) ELSE Goto(c, "insert")
  /\ UNCHANGED <<tables, device, mix, spent, story>>

(* The code of a new board, which is not modelled, may be one that a row has: *)
(* uniq_boards0code refuses it and create_board raises DuplicateCode.        *)
CodeMayBeTaken == \E b \in Boards : Exists("boards", b)

(* new_board.create() *)
InsertBoard(c) ==
  /\ Busy(c, "createBoard", "insert")
  /\ LET row == BoardRow(Changes(Sent(c)))
         n   == row.name
         Race(d) == calls[d] # NULL /\ calls[d].op = "createBoard"
                    /\ calls[d].at = "insert" /\ calls[d].msg.data.name = n
     IN \/ /\ FleetExists("boards", row)
           /\ \E b \in Boards :
                /\ Insert("boards", b, row)
                /\ calls' = [calls EXCEPT ![c].at = "locate", ![c].id = b]
           /\ story' = [story EXCEPT !.clash =
                IF \E d \in Clients \ {c} : Race(d) THEN @ \cup {n} ELSE @]
           /\ UNCHANGED <<located, injections, exposed>>
        \/ /\ ~FleetExists("boards", row) \/ CodeMayBeTaken
           /\ Return(c) /\ UNCHANGED <<tables, story>>
  /\ UNCHANGED <<device, mix, spent>>

(* new_location.create(); the board may be gone. *)
CreateLocation(c) ==
  /\ Busy(c, "createBoard", "locate")
  /\ located' = IF Exists("boards", calls[c].id) THEN located \cup {calls[c].id} ELSE located
  /\ Return(c)
  /\ UNCHANGED <<rows, injections, exposed, born, device, mix, spent, story>>

(* board.save() *)
UpdateBoard(c) ==
  /\ Busy(c, "updateBoard", "save")
  /\ LET b == calls[c].id
         o == Sent(c)
     IN IF CanUpdate("boards", b, o)
        THEN /\ UpdateRow("boards", b, o)
             /\ story' = [story EXCEPT !.clash =
                  IF "name" \in o.changed THEN @ \cup {o.vals.name} ELSE @]
        ELSE UNCHANGED <<rows, story>>
  /\ Return(c)
  /\ UNCHANGED <<located, injections, exposed, born, device, mix, spent>>

(* board = Board.get_by_uuid(); if board.is_online() *)
ReadBoard(c) ==
  /\ Busy(c, "destroyBoard", "read")
  /\ LET b == calls[c].board
     IN IF ~Exists("boards", b) THEN Return(c)
        ELSE Goto(c, IF Online(b) THEN "execute" ELSE "list")
  /\ UNCHANGED <<tables, device, mix, spent, story>>

(* exposed_list = ExposedService.get_by_board_uuid() *)
ListExposed(c) ==
  /\ Busy(c, "destroyBoard", "list")
  /\ LET list == {e \in exposed : e.board = calls[c].board}
     IN calls' = [calls EXCEPT ![c].at = "allow", ![c].list = list, ![c].seen = list]
  /\ UNCHANGED <<tables, device, mix, spent, story>>

(* remove_from_allowlist for each row of the list *)
RemoveAllowed(c) ==
  /\ Busy(c, "destroyBoard", "allow")
  /\ \E e \in calls[c].list :
       /\ allowed' = allowed \ {<<e.board, e.port>>}
       /\ calls' = [calls EXCEPT ![c].list = @ \ {e}]
  /\ UNCHANGED <<tables, installed, free, mix, spent, story>>

(* Mutant: the board is destroyed before the allow list is cleaned. *)
DestroyBoardEarly(c) ==
  /\ Busy(c, "destroyBoard", "allow")
  /\ IF Exists("boards", calls[c].board) THEN DestroyBoardRow(calls[c].board) ELSE UNCHANGED tables
  /\ Return(c)
  /\ UNCHANGED <<device, mix, spent, story>>

(* board.destroy() *)
DestroyBoard(c) ==
  /\ Busy(c, "destroyBoard", "allow")
  /\ calls[c].list = {}
  /\ LET b    == calls[c].board
         late == {e \in exposed : e.board = b} \ calls[c].seen
     IN IF Exists("boards", b)
        THEN /\ DestroyBoardRow(b)
             /\ story' = [story EXCEPT !.stray = @ \cup {e.port : e \in late}]
        ELSE UNCHANGED <<tables, story>>
  /\ Return(c)
  /\ UNCHANGED <<device, mix, spent>>

-----------------------------------------------------------------------------
(* Plugins, services and fleets in the conductor *)
(* A handler of one transaction: it answers or raises, and that is all. *)
Transaction(c, op, at, Rows) ==
  /\ Busy(c, op, at)
  /\ Rows
  /\ Return(c)
  /\ UNCHANGED <<located, injections, exposed, device, mix, spent, story>>

CreatePlugin(c) == Transaction(c, "createPlugin", "insert",
  \E p \in Plugins : CreatePluginRow(p, Changes(Sent(c))))
CreateService(c) == Transaction(c, "createService", "insert",
  \E s \in Services : CreateServiceRow(s, Changes(Sent(c))))
CreateFleet(c) == Transaction(c, "createFleet", "insert",
  \E f \in Fleets : CreateFleetRow(f, Changes(Sent(c))))

UpdatePlugin(c)  == Transaction(c, "updatePlugin", "save", UpdatePluginRow(calls[c].id, Sent(c)))
UpdateService(c) == Transaction(c, "updateService", "save", UpdateServiceRow(calls[c].id, Sent(c)))
UpdateFleet(c)   == Transaction(c, "updateFleet", "save", UpdateFleetRow(calls[c].id, Sent(c)))

DestroyPlugin(c)  == Transaction(c, "destroyPlugin", "destroy", DestroyPluginRow(calls[c].id))
DestroyService(c) == Transaction(c, "destroyService", "destroy", DestroyServiceRow(calls[c].id))
DestroyFleet(c)   == Transaction(c, "destroyFleet", "destroy", DestroyFleetRow(calls[c].id))

-----------------------------------------------------------------------------
(* Calls on a board *)
Pair(c) == <<calls[c].board, calls[c].plugin>>

(* A plugin call crosses another on the same plugin and board. *)
Crosses(c) == \E d \in Clients \ {c} :
  /\ calls[d] # NULL /\ calls[d].op \in PluginOps /\ calls[d].at # "read"
  /\ Pair(d) = Pair(c)
  /\ "injectPlugin" \in {calls[c].op, calls[d].op}
  /\ "removePlugin" \in {calls[c].op, calls[d].op}

(* The reads at the start of inject_plugin and action_plugin. *)
ReadPlugin(c, op) ==
  /\ Busy(c, op, "read")
  /\ IF Exists("plugins", calls[c].plugin) THEN Goto(c, "execute") ELSE Return(c)
  /\ story' = IF Crosses(c) THEN [story EXCEPT !.pairs[Pair(c)] = @ \cup {"crossed"}] ELSE story
  /\ UNCHANGED <<tables, device, mix, spent>>
InjectPlugin(c) == ReadPlugin(c, "injectPlugin")
ActionPlugin(c) == ReadPlugin(c, "actionPlugin")

(* remove_plugin reads the injection too, and raises unless there is one. *)
RemovePlugin(c) ==
  /\ Busy(c, "removePlugin", "read")
  /\ LET row == InjectionByUuids(calls[c].board, calls[c].plugin)
     IN IF Exists("plugins", calls[c].plugin) /\ row # NULL
        THEN calls' = [calls EXCEPT ![c].at = "execute", ![c].row = row.id]
        ELSE Return(c)
  /\ story' = IF Crosses(c) THEN [story EXCEPT !.pairs[Pair(c)] = @ \cup {"crossed"}] ELSE story
  /\ UNCHANGED <<tables, device, mix, spent>>

(* execute_on_board reads the board again before it calls. *)
ExecuteOnBoard(c) ==
  /\ calls[c] # NULL /\ calls[c].at = "execute"
  /\ IF Online(calls[c].board) THEN Goto(c, "invoke") /\ UNCHANGED story ELSE Raise(c)
  /\ UNCHANGED <<tables, device, mix, spent>>

(* What a call does to the memory of its board. *)
Memory(c) ==
  LET old == installed[calls[c].board]
  IN CASE calls[c].op = "injectPlugin" -> old \cup {calls[c].plugin}
       [] calls[c].op = "removePlugin" -> old \ {calls[c].plugin}
       [] calls[c].op = "destroyBoard" -> {}
       [] OTHER -> old

(* The ghost of a result that the database will not follow. *)
Told(c, what) ==
  IF calls[c].op \in PluginOps THEN [story EXCEPT !.pairs[Pair(c)] = @ \cup {what}]
  ELSE IF calls[c].op = "destroyBoard"
  THEN [story EXCEPT !.pairs = [q \in Pairs |-> @[q] \cup
          IF q[1] = calls[c].board THEN {"reset"} ELSE {}]]
  ELSE story

(* The board carries the call out, or answers with an error. *)
BoardDoes(c) ==
  /\ calls[c] # NULL /\ calls[c].at = "invoke"
  /\ installed' = [installed EXCEPT ![calls[c].board] = Memory(c)]
  /\ CASE calls[c].op \in PluginOps ->
            /\ calls' = [calls EXCEPT ![c].at = IF calls[c].op = "injectPlugin" THEN "lookup" ELSE "record",
                                      ![c].result = "SUCCESS"]
            /\ UNCHANGED story
       [] calls[c].op = "actionPlugin" -> Return(c) /\ UNCHANGED story
       [] calls[c].op = "destroyBoard" -> Goto(c, "list") /\ story' = Told(c, "reset")
       [] calls[c].op = "enableService" -> Goto(c, "record") /\ UNCHANGED story
  /\ UNCHANGED <<tables, allowed, free, mix, spent>>

(* Mutant: remove_plugin destroys the row whatever the board answers. *)
BoardRefusesUnseen(c) ==
  /\ calls[c] # NULL /\ calls[c].at = "invoke"
  /\ calls[c].op = "removePlugin"
  /\ Goto(c, "record")
  /\ UNCHANGED <<tables, device, mix, spent, story>>

(* inject_plugin looks at the result after it has written the row, and      *)
(* destroy_board after it has destroyed it; the others before.              *)
BoardRefuses(c) ==
  /\ calls[c] # NULL /\ calls[c].at = "invoke"
  /\ CASE calls[c].op = "injectPlugin" ->
            /\ calls' = [calls EXCEPT ![c].at = "lookup", ![c].result = "ERROR"]
            /\ story' = Told(c, "failed")
       [] calls[c].op = "destroyBoard" -> Goto(c, "list") /\ UNCHANGED story
       [] OTHER -> Raise(c)
  /\ UNCHANGED <<tables, device, mix, spent>>

(* The RPC to the agent times out: the handler raises, but the call may     *)
(* still reach the board.                                                   *)
CallTimesOut(c) ==
  /\ calls[c] # NULL /\ calls[c].at = "invoke"
  /\ Goto(c, "orphan")
  /\ story' = Cut({c})
  /\ UNCHANGED <<tables, device, mix, spent>>

OrphanRuns(c) ==
  /\ calls[c] # NULL /\ calls[c].at = "orphan"
  /\ installed' = [installed EXCEPT ![calls[c].board] = Memory(c)]
  /\ story' = Told(c, "lost")
  /\ Return(c)
  /\ UNCHANGED <<tables, allowed, free, mix, spent>>

OrphanIsLost(c) ==
  /\ calls[c] # NULL /\ calls[c].at = "orphan"
  /\ Return(c)
  /\ UNCHANGED <<tables, device, mix, spent, story>>

-----------------------------------------------------------------------------
(* Injections in the database *)

(* Mutant: every injection is taken for the first. *)
LookupInjectionNot(c) ==
  /\ Busy(c, "injectPlugin", "lookup")
  /\ Goto(c, "record")
  /\ UNCHANGED <<tables, device, mix, spent, story>>

(* try: injection = InjectionPlugin.get(); except Exception: pass *)
LookupInjection(c) ==
  /\ Busy(c, "injectPlugin", "lookup")
  /\ LET row == InjectionByUuids(calls[c].board, calls[c].plugin)
     IN calls' = [calls EXCEPT ![c].at = "record",
                    ![c].row = IF row = NULL THEN NULL ELSE row.id]
  /\ UNCHANGED <<tables, device, mix, spent, story>>

(* injection.status = 'updated'; injection.save() *)
SaveInjection(c) ==
  /\ Busy(c, "injectPlugin", "record")
  /\ calls[c].row # NULL
  /\ IF \E i \in injections : i.id = calls[c].row
     THEN /\ injections' = {IF i.id = calls[c].row THEN [i EXCEPT !.status = "updated"] ELSE i
                              : i \in injections}
          /\ Return(c) /\ UNCHANGED story
     ELSE Raise(c) /\ UNCHANGED injections
  /\ UNCHANGED <<rows, located, exposed, born, device, mix, spent>>

(* injection.create(); the board or the plugin may be gone. *)
CreateInjection(c) ==
  /\ Busy(c, "injectPlugin", "record")
  /\ calls[c].row = NULL
  /\ LET b == calls[c].board
         p == calls[c].plugin
         Twin(d) == Busy(d, "injectPlugin", "record") /\ calls[d].row = NULL
                    /\ Pair(d) = Pair(c)
     IN IF Exists("boards", b) /\ Exists("plugins", p)
        THEN /\ injections' = injections \cup
                  {[id |-> spent.serial, board |-> b, plugin |-> p, status |-> "injected"]}
             /\ spent' = [spent EXCEPT !.serial = @ + 1]
             /\ story' = IF \E d \in Clients \ {c} : Twin(d)
                         THEN [story EXCEPT !.pairs[Pair(c)] = @ \cup {"twice"}] ELSE story
             /\ Return(c)
        ELSE Raise(c) /\ UNCHANGED <<injections, spent>>
  /\ UNCHANGED <<rows, located, exposed, born, device, mix>>

(* injection.destroy(): by id, and no row is no error. *)
DestroyInjection(c) ==
  /\ Busy(c, "removePlugin", "record")
  /\ injections' = {i \in injections : i.id # calls[c].row}
  /\ Return(c)
  /\ UNCHANGED <<rows, located, exposed, born, device, mix, spent, story>>

-----------------------------------------------------------------------------
(* The part of action_service that destroy_board depends on: ServiceEnable. *)
(* The list of ports and the allow list are modelled in ServicePorts.       *)
EnableService(c) ==
  /\ Busy(c, "enableService", "read")
  /\ LET b == calls[c].board
         s == calls[c].service
     IN IF /\ Exists("services", s) /\ Online(b) /\ free # {}
           /\ ~ \E e \in exposed : ExposedOf(b, s) = {e}
        THEN \E q \in free :
               /\ free' = free \ {q}
               /\ calls' = [calls EXCEPT ![c].at = "allow", ![c].port = q]
        ELSE Return(c) /\ UNCHANGED free
  /\ UNCHANGED <<tables, installed, allowed, mix, spent, story>>

AddAllowed(c) ==
  /\ Busy(c, "enableService", "allow")
  /\ allowed' = allowed \cup {<<calls[c].board, calls[c].port>>}
  /\ Goto(c, "execute")
  /\ UNCHANGED <<tables, installed, free, mix, spent, story>>

CreateExposed(c) ==
  /\ Busy(c, "enableService", "record")
  /\ LET b == calls[c].board
         s == calls[c].service
     IN IF Exists("boards", b) /\ Exists("services", s)
        THEN /\ exposed' = exposed \cup {[board |-> b, service |-> s, port |-> calls[c].port]}
             /\ Return(c) /\ UNCHANGED story
        ELSE Raise(c) /\ UNCHANGED exposed
  /\ UNCHANGED <<rows, located, injections, born, device, mix, spent>>

(* A call to change the allow list raises; it may have come through. *)
AgentUnreachable(c) ==
  /\ calls[c] # NULL /\ calls[c].at = "allow"
  /\ \/ /\ calls[c].op = "enableService"
        /\ allowed' \in {allowed, allowed \cup {<<calls[c].board, calls[c].port>>}}
     \/ /\ calls[c].op = "destroyBoard"
        /\ \E e \in calls[c].list : allowed' \in {allowed, allowed \ {<<e.board, e.port>>}}
  /\ Raise(c)
  /\ UNCHANGED <<tables, installed, free, mix, spent>>

-----------------------------------------------------------------------------
(* The rest of the system *)

(* connection and board_on_leave set the status only: see BoardSessions. *)
SetStatus(b, from, to) ==
  /\ Exists("boards", b)
  /\ rows.boards[b].status \in from
  /\ spent.toggles < MaxToggles
  /\ spent' = [spent EXCEPT !.toggles = @ + 1]
  /\ rows' = [rows EXCEPT !.boards[b].status = to]
  /\ UNCHANGED <<located, injections, exposed, born, device, calls, mix, story>>
BoardConnects(b) == SetStatus(b, {"registered", "offline"}, "online")
BoardLeaves(b)   == SetStatus(b, {"online"}, "offline")

(* The process of the conductor is killed: its threads go with it. *)
ConductorCrashes ==
  /\ spent.crashes < MaxCrashes
  /\ spent' = [spent EXCEPT !.crashes = @ + 1]
  /\ calls' = [c \in Clients |->
       IF calls[c] = NULL \/ calls[c].at \notin {"invoke", "orphan"} THEN NULL
       ELSE [calls[c] EXCEPT !.at = "orphan"]]
  /\ story' = Cut(Clients)
  /\ UNCHANGED <<tables, device, mix>>

Controller(c) ==
  \/ PostBoard(c) \/ PatchBoard(c) \/ DeleteBoard(c)
  \/ PostPlugin(c) \/ PatchPlugin(c) \/ DeletePlugin(c)
  \/ PostService(c) \/ PatchService(c) \/ DeleteService(c)
  \/ PostFleet(c) \/ PatchFleet(c) \/ DeleteFleet(c)
  \/ PutInjection(c) \/ DeleteInjection(c) \/ PostPluginAction(c) \/ PostServiceAction(c)

Conductor(c) ==
  \/ CheckName(c) \/ InsertBoard(c) \/ CreateLocation(c) \/ UpdateBoard(c)
  \/ ReadBoard(c) \/ ListExposed(c) \/ RemoveAllowed(c) \/ DestroyBoard(c)
  \/ CreatePlugin(c) \/ UpdatePlugin(c) \/ DestroyPlugin(c)
  \/ CreateService(c) \/ UpdateService(c) \/ DestroyService(c)
  \/ CreateFleet(c) \/ UpdateFleet(c) \/ DestroyFleet(c)
  \/ InjectPlugin(c) \/ RemovePlugin(c) \/ ActionPlugin(c) \/ ExecuteOnBoard(c)
  \/ LookupInjection(c) \/ SaveInjection(c) \/ CreateInjection(c) \/ DestroyInjection(c)
  \/ EnableService(c) \/ AddAllowed(c) \/ CreateExposed(c) \/ AgentUnreachable(c)

Board(c) == BoardDoes(c) \/ BoardRefuses(c) \/ CallTimesOut(c) \/ OrphanRuns(c) \/ OrphanIsLost(c)

Next ==
  \/ \E c \in Clients : Controller(c) \/ Conductor(c) \/ Board(c)
  \/ \E b \in Boards : BoardConnects(b) \/ BoardLeaves(b)
  \/ ConductorCrashes

Spec == Init /\ [][Next]_vars

-----------------------------------------------------------------------------
(* Properties *)

TypeOK ==
  /\ rows = [t \in Tables |-> rows[t]]
  /\ \A t \in Tables : rows[t] \in [Uuids(t) -> Row(t) \cup {NULL}]
  /\ located \subseteq Boards
  /\ injections \subseteq Injections
  /\ exposed \subseteq Exposures
  /\ born = [t \in Tables |-> born[t]]
  /\ \A t \in Tables : born[t] \subseteq Uuids(t)
  /\ installed \in [Boards -> SUBSET Plugins]
  /\ allowed \subseteq Boards \X Ports
  /\ free \subseteq Ports
  /\ calls \in [Clients -> Calls \cup {NULL}]
  /\ mix \in Mixes
  /\ spent \in [calls : Nat, toggles : Nat, crashes : Nat, serial : Nat]
  /\ story \in Stories

(* Two boards have the same name only after a PATCH has given that name, or *)
(* after two creations that had both looked for it: create_board answers    *)
(* BoardNameAlreadyExists otherwise.                                        *)
UniqueName ==
  \A a, b \in Boards :
    /\ Exists("boards", a) /\ Exists("boards", b)
    /\ rows.boards[a].name = rows.boards[b].name
    => a = b \/ rows.boards[a].name \in story.clash

(* Two injections of a plugin in a board come only from two calls that both *)
(* looked for a row and found none.                                         *)
OneInjection ==
  \A i, j \in injections :
    i.board = j.board /\ i.plugin = j.plugin =>
      i = j \/ "twice" \in story.pairs[<<i.board, i.plugin>>]

Quiet(q) == ~ \E c \in Clients : calls[c] # NULL /\ calls[c].op \in PluginOps /\ Pair(c) = q

(* A plugin that a board of the database has in memory is recorded, so that *)
(* it can be removed, unless an answer was lost, the rows changed under     *)
(* inject_plugin, or it crossed a remove_plugin.                            *)
InstalledIsRecorded ==
  \A q \in Pairs :
    Quiet(q) /\ Exists("boards", q[1]) /\ q[2] \in installed[q[1]] =>
      RowsOf(q[1], q[2]) # {} \/ story.pairs[q] \cap {"lost", "crossed"} # {}

(* A recorded plugin is in the memory of its board, unless the board refused *)
(* it, answered too late, was reset, or the calls crossed.                   *)
RecordedIsInstalled ==
  \A i \in injections : LET q == <<i.board, i.plugin>> IN
    Quiet(q) => q[2] \in installed[q[1]]
                \/ story.pairs[q] \cap {"lost", "failed", "reset", "crossed"} # {}

(* The injections the API shows and removes are the plugins the boards hold. *)
InjectionsAgree == InstalledIsRecorded /\ RecordedIsInstalled

(* The allow list has no entry for a board that was destroyed, unless its   *)
(* service was being enabled while destroy_board listed the exposed ones.   *)
AllowedIsOwned ==
  \A e \in allowed : Exists("boards", e[1]) \/ e[2] \in story.stray
    \/ \E c \in Clients : calls[c] # NULL /\ calls[c].op = "enableService" /\ calls[c].port = e[2]

(* registration takes the first location of a board: every board has one,   *)
(* unless it is being created or the conductor has died in create_board.    *)
HasLocation ==
  \A b \in Boards : Exists("boards", b) =>
    \/ b \in located \cup story.cut
    \/ \E c \in Clients : Busy(c, "createBoard", "locate") /\ calls[c].id = b

(* create_board and destroy_board leave nothing of a board half made or half *)
(* removed.                                                                  *)
BoardIsWhole == HasLocation /\ AllowedIsOwned

(* A call that saves a board changes the columns of its request and no other *)
(* one, whatever has happened to the row since the controller read it; a     *)
(* change of status is never undone by a PATCH.                              *)
PatchKeepsOthers ==
  [][\A b \in Boards : Exists("boards", b) /\ rows'.boards[b] # NULL =>
       LET changed == {f \in Columns("boards") : rows'.boards[b][f] # rows.boards[b][f]}
       IN \/ changed \subseteq {"status"} /\ (spent').toggles = spent.toggles + 1
          \/ \E c \in Clients : calls[c] # NULL /\ calls'[c] = NULL
                /\ calls[c].op = "updateBoard" /\ changed \subseteq calls[c].asked
          \/ changed = {}]_vars
=============================================================================
