------------------------------ MODULE Listing ------------------------------
(***************************************************************************)
(* The collections of the REST API: what a client gets that asks for a     *)
(* list and follows the "next" links, while the table changes.             *)
(*                                                                         *)
(* A page is three accesses: the row of the marker is read, then the page, *)
(* and for boards the agents of its rows. A link carries the sort key, the *)
(* direction, the limit and the last uuid; the other parameters of the     *)
(* first request are not in it, and its resource is the default one.       *)
(***************************************************************************)
EXTENDS Naturals, FiniteSets, SequencesExt

CONSTANTS
  Projects,  \* of users and rows; also the owners of plugins
  Keys,      \* values of the column 'name', which may be equal
  MaxId,     \* ids are 1 .. MaxId, in the order of creation
  MaxLimit,  \* CONF.api.max_limit
  Limits,    \* that clients give; NULL for none
  Orders,    \* [sort, dir] that clients give
  Starts,    \* tables walks start with, and changes during a walk
  Caller,    \* the project of the client
  NULL

ASSUME ListingAssumption ==
  /\ Keys \subseteq Nat
  /\ MaxId \in Nat /\ MaxLimit \in Nat \ {0}
  /\ Limits \subseteq Nat \cup {NULL}
  /\ Orders \subseteq [sort : {"id", "name"}, dir : {"asc", "desc"}]
  /\ Starts \subseteq [rows : 0 .. MaxId, changes : Nat]
  /\ Caller \in Projects

Ids  == 1 .. MaxId
(* flag: the row has the status, is public, or belongs to the fleet, the    *)
(* request or the board that is asked for.                                 *)
Rows == [project : Projects, flag : BOOLEAN, key : Keys]
(* What a walk keeps of a row: its id and its name. *)
Entries == [id : Ids, key : Keys]

ASSUME NullAssumption == NULL \notin Projects \cup Nat \cup Rows \cup Entries

VARIABLES
  table,    \* the rows by id, or NULL
  newest,   \* the last id given
  agentUp,  \* the agent of the boards has an online row
  cached,   \* cache_agent_ip has the agent
  caller,   \* [project, admin]
  walk,     \* the client's walk
  changes,
  story     \* ghost: the ids that changed, and the order that did

env  == <<table, newest, agentUp>>
vars == <<env, cached, caller, walk, changes, story>>

Lists == {"boards", "plugins", "public_plugins", "services", "public_services", "webservices",
          "board_webservices", "enabled", "fleets", "requests", "ports", "fleet_boards", "results"}

(* What may be asked for: project, status or with_public (flag), and all. *)
Requests ==
  [list : Lists, detail : BOOLEAN, project : Projects \cup {NULL}, flag : BOOLEAN, all : BOOLEAN,
   order : Orders, limit : Limits]

Init ==
  /\ \E s \in Starts :
       /\ \E rows \in [1 .. s.rows -> Rows] :
            table = [i \in Ids |-> IF i <= s.rows THEN rows[i] ELSE NULL]
       /\ newest = s.rows
       /\ changes = s.changes
  /\ agentUp = TRUE
  /\ cached = FALSE
  /\ caller \in [project : {Caller}, admin : BOOLEAN]
  /\ walk = [at |-> "idle"]
  /\ story = [touched |-> {}, shifted |-> FALSE]

-----------------------------------------------------------------------------
(* The filters the controllers make *)

Single(key, value)    == [k \in {key} |-> value]
When(condition, keys) == IF condition THEN keys ELSE {}
None == <<>>

BoardsFilters(q) ==
  [k \in {"project_id"} \cup When(q.flag, {"status"}) |->
     IF k = "status" THEN TRUE ELSE IF q.project # NULL THEN q.project ELSE caller.project]
PluginsFilters(q) ==
  [k \in When(~q.all, {"owner"} \cup When(q.flag, {"with_public"})) |->
     IF k = "with_public" THEN TRUE ELSE caller.project]
PublicPluginsFilters == Single("public", TRUE)
ServicesFilters(q) ==
  [k \in When(~q.all, {"project"} \cup When(q.flag, {"with_public"})) |->
     IF k = "with_public" THEN TRUE ELSE caller.project]
PublicServicesFilters == Single("public", TRUE)
WebservicesFilters    == Single("project_id", caller.project)
BoardWebservicesFilters == Single("board_uuid", TRUE)
EnabledFilters        == Single("project_id", caller.project)
FleetsFilters         == [k \in When(caller.admin, {"project_id"}) |-> caller.project]
RequestsFilters       == [k \in When(caller.admin, {"project_id"}) |-> caller.project]
FleetBoardsFilters    == Single("fleet", TRUE)
ResultsFilters        == Single("request_uuid", TRUE)
PortsFilters          == None

-----------------------------------------------------------------------------
(* What the database makes of them *)

Has(f, key)           == key \in DOMAIN f
Equals(f, key, value) == Has(f, key) => value = f[key]

(* Mutant: the status is forgotten. *)
AddBoardsFiltersProject(f, r) ==
  Equals(f, "project_id", r.project) /\ Equals(f, "fleet", r.flag)

AddBoardsFilters(f, r) ==
  /\ Equals(f, "project_id", r.project)
  /\ Equals(f, "status", r.flag)
  /\ Equals(f, "fleet", r.flag)
AddPluginsFilters(f, r) ==
  IF Has(f, "owner") THEN r.project = f["owner"] \/ (Has(f, "with_public") /\ r.flag)
  ELSE Has(f, "public") => r.flag
AddServicesFilters(f, r)    == Equals(f, "owner", r.project)
AddWebservicesFilters(f, r) ==
  Equals(f, "project_id", r.project) /\ Equals(f, "board_uuid", r.flag)
AddEnabledFilters(f, r)     == Equals(f, "project_id", r.project)
AddFleetsFilters(f, r)      == Equals(f, "project_id", r.project)
AddRequestsFilters(f, r)    == Equals(f, "project_id", r.project)
AddResultFilters(f, r)      == Equals(f, "request_uuid", r.flag)
(* It returns nothing, and no query is the query of every row. *)
AddPortsFilters(f, r)       == TRUE

(* objects....list, for each list *)
BoardList(q, r)            == AddBoardsFilters(BoardsFilters(q), r)
FleetBoardList(r)          == AddBoardsFilters(FleetBoardsFilters, r)
PluginList(q, r)           == AddPluginsFilters(PluginsFilters(q), r)
PublicPluginList(r)        == AddPluginsFilters(PublicPluginsFilters, r)
ServiceList(q, r)          == AddServicesFilters(ServicesFilters(q), r)
PublicServiceList(r)       == AddServicesFilters(PublicServicesFilters, r)
WebserviceList(r)          == AddWebservicesFilters(WebservicesFilters, r)
BoardWebserviceList(r)     == AddWebservicesFilters(BoardWebservicesFilters, r)
EnabledWebserviceList(r)   == AddEnabledFilters(EnabledFilters, r)
FleetList(r)               == AddFleetsFilters(FleetsFilters, r)
RequestList(r)             == AddRequestsFilters(RequestsFilters, r)
PortList(r)                == AddPortsFilters(PortsFilters, r)
ResultList(r)              == AddResultFilters(ResultsFilters, r)

Matches(q, r) ==
  CASE q.list = "boards"            -> BoardList(q, r)
    [] q.list = "fleet_boards"      -> FleetBoardList(r)
    [] q.list = "plugins"           -> PluginList(q, r)
    [] q.list = "public_plugins"    -> PublicPluginList(r)
    [] q.list = "services"          -> ServiceList(q, r)
    [] q.list = "public_services"   -> PublicServiceList(r)
    [] q.list = "webservices"       -> WebserviceList(r)
    [] q.list = "board_webservices" -> BoardWebserviceList(r)
    [] q.list = "enabled"           -> EnabledWebserviceList(r)
    [] q.list = "fleets"            -> FleetList(r)
    [] q.list = "requests"          -> RequestList(r)
    [] q.list = "ports"             -> PortList(r)
    [] q.list = "results"           -> ResultList(r)

(* The rows are ordered by the sort key, then by id, both in the direction. *)
Value(q, i, key) == IF q.order.sort = "name" THEN key ELSE i
Ascends(q, a, b) ==
  LET va == Value(q, a.id, a.key)
      vb == Value(q, b.id, b.key)
  IN va < vb \/ (va = vb /\ a.id < b.id)

(* paginate_query of oslo.db compares whole rows with the marker. *)
Precedes(q, a, b) == IF q.order.dir = "asc" THEN Ascends(q, a, b) ELSE Ascends(q, b, a)

Entry(i) == [id |-> i, key |-> table[i].key]
(* Mutant: a page starts with its marker. *)
FoundAgain(q, marker) ==
  {Entry(i) : i \in {j \in Ids : table[j] # NULL /\ Matches(q, table[j])
                                 /\ (marker = NULL \/ ~Precedes(q, Entry(j), marker))}}
Found(q, marker) ==
  {Entry(i) : i \in {j \in Ids : table[j] # NULL /\ Matches(q, table[j])
                                 /\ (marker = NULL \/ Precedes(q, marker, Entry(j)))}}
InOrder(q, set) ==
  LET places == 1 .. Cardinality(set)
  IN CHOOSE s \in [places -> set] : \A m, n \in places : m < n => Precedes(q, s[m], s[n])
PaginateQuery(q, marker, limit) ==
  LET rows == InOrder(q, Found(q, marker))
  IN IF limit = NULL THEN rows ELSE SubSeq(rows, 1, IF limit < Len(rows) THEN limit ELSE Len(rows))

-----------------------------------------------------------------------------
(* The boards of a fleet and the results of a request are listed without   *)
(* this, and all of them if there is no limit.                             *)
ValidateLimit(q) ==
  IF q.list \in {"fleet_boards", "results"} THEN q.limit
  ELSE IF q.limit = NULL \/ q.limit > MaxLimit THEN MaxLimit ELSE q.limit

(* What get_all and detail take besides marker, limit and order: a project, *)
(* a status or with_public (flag), and all; FALSE if there is no detail.    *)
BoardsTake   == {"project", "flag"}
BoardsDetail == {"project", "flag"}
PluginsTake   == {"flag", "all"}
PluginsDetail == {"flag", "all"}
ServicesTake   == {"flag", "all"}
ServicesDetail == {"flag", "all"}
PublicPluginsTake    == {}
PublicServicesTake   == {}
WebservicesTake      == {}
BoardWebservicesTake == {}
EnabledTake          == {}
FleetsTake           == {}
RequestsTake         == {}
PortsTake            == {}
ResultsTake          == {}

Takes(q) ==
  CASE q.list = "boards"   -> IF q.detail THEN BoardsDetail ELSE BoardsTake
    [] q.list = "plugins"  -> IF q.detail THEN PluginsDetail ELSE PluginsTake
    [] q.list = "services" -> IF q.detail THEN ServicesDetail ELSE ServicesTake
    [] q.list = "public_plugins"    -> PublicPluginsTake
    [] q.list = "public_services"   -> PublicServicesTake
    [] q.list = "webservices"       -> WebservicesTake
    [] q.list = "board_webservices" -> BoardWebservicesTake
    [] q.list = "enabled"           -> EnabledTake
    [] q.list = "fleets"            -> FleetsTake
    [] q.list = "requests"          -> RequestsTake
    [] q.list = "ports"             -> PortsTake
    [] OTHER                        -> ResultsTake

Wellformed(q) ==
  /\ q.project # NULL => "project" \in Takes(q)
  /\ q.flag => "flag" \in Takes(q)
  /\ q.all => "all" \in Takes(q)
  /\ q.detail => q.list \in {"boards", "plugins", "services", "webservices", "fleets", "requests"}

(* ValidateLimit raises on a limit of 0. *)
LimitRefused(q) == q.list \notin {"fleet_boards", "results"} /\ q.limit = 0

(* Three detail methods pass parameters that their collection lacks.        *)
WebservicesDetailRaises(q) == q.list = "webservices" /\ q.detail
FleetsDetailRaises(q)      == q.list = "fleets" /\ q.detail
RequestsDetailRaises(q)    == q.list = "requests" /\ q.detail

(* The request raises before the list is read. *)
Refused(q) ==
  \/ q.list = "boards" /\ q.project # NULL /\ ~caller.admin
  \/ q.list \in {"plugins", "services"} /\ q.all /\ ~caller.admin
  \/ LimitRefused(q)
  \/ WebservicesDetailRaises(q) \/ FleetsDetailRaises(q) \/ RequestsDetailRaises(q)

GetAll(q) ==
  /\ walk' = [at |-> IF Refused(q) THEN "error" ELSE "list",
              q |-> [q EXCEPT !.detail = FALSE], first |-> [q EXCEPT !.detail = FALSE],
              pages |-> 0, marker |-> NULL, page |-> <<>>, seen |-> <<>>]
  /\ UNCHANGED <<env, cached, caller, changes, story>>

(* The client follows the link: objects....get_by_uuid(marker) *)
FindMarker ==
  /\ walk.at = "marker"
  /\ LET i == walk.marker.id IN
       walk' = IF table[i] = NULL THEN [walk EXCEPT !.at = "error"]
               ELSE [walk EXCEPT !.at = "list", !.marker = Entry(i)]
  /\ UNCHANGED <<env, cached, caller, changes, story>>

(* objects....list(limit, marker_obj, sort_key, sort_dir, filters) *)
QueryPage ==
  /\ walk.at = "list"
  /\ walk' = [walk EXCEPT !.at = "convert",
                          !.page = PaginateQuery(walk.q, walk.marker, ValidateLimit(walk.q))]
  /\ UNCHANGED <<env, cached, caller, changes, story>>

HasNext(q, page) == page # <<>> /\ Len(page) = ValidateLimit(q)

(* The link of a page that is full, without the parameters; the items of    *)
(* two lists have no uuid to make it of.                                    *)
NoLink(q) == q.list \in {"enabled", "results"}
(* _type, the resource of the link: that of the collection, whichever list  *)
(* it was made for.                                                        *)
BoardCollection      == "boards"
PluginCollection     == "plugins"
ServiceCollection    == "services"
WebserviceCollection == "webservices"
FleetCollection      == "fleets"
RequestCollection    == "requests"
PortCollection       == "ports"
NextList(q) ==
  CASE q.list \in {"boards", "fleet_boards"}           -> BoardCollection
    [] q.list \in {"plugins", "public_plugins"}        -> PluginCollection
    [] q.list \in {"services", "public_services"}      -> ServiceCollection
    [] q.list \in {"webservices", "board_webservices"} -> WebserviceCollection
    [] q.list = "fleets"   -> FleetCollection
    [] q.list = "requests" -> RequestCollection
    [] q.list = "ports"    -> PortCollection
GetNext(q) ==
  [q EXCEPT !.list = NextList(q), !.project = NULL, !.flag = FALSE, !.all = FALSE]

(* Board.convert_with_links looks up the agent of each board that has none  *)
(* in the cache, and raises if it is not online.                           *)
LooksUpAgent(q) == q.list \in {"boards", "fleet_boards"} /\ walk.page # <<>> /\ ~cached

ConvertRaises ==
  /\ walk.at = "convert"
  /\ (LooksUpAgent(walk.q) /\ ~agentUp) \/ (HasNext(walk.q, walk.page) /\ NoLink(walk.q))
  /\ walk' = [walk EXCEPT !.at = "error"]
  /\ UNCHANGED <<env, cached, caller, changes, story>>

ConvertPage ==
  /\ walk.at = "convert"
  /\ LooksUpAgent(walk.q) => agentUp
  /\ HasNext(walk.q, walk.page) => ~NoLink(walk.q)
  /\ cached' = (cached \/ LooksUpAgent(walk.q))
  /\ LET more == [walk EXCEPT !.seen = @ \o walk.page, !.pages = @ + 1, !.page = <<>>] IN
       walk' = IF HasNext(walk.q, walk.page)
               THEN [more EXCEPT !.at = "marker", !.marker = Last(walk.page), !.q = GetNext(@)]
               ELSE [more EXCEPT !.at = "done"]
  /\ UNCHANGED <<env, caller, changes, story>>

-----------------------------------------------------------------------------
(* Other clients, boards and agents *)

Change == changes > 0 /\ changes' = changes - 1 /\ walk.at \notin {"idle", "done", "error"}
Touch(i, shifts) == story' = [touched |-> story.touched \cup {i}, shifted |-> story.shifted \/ shifts]

Insert ==
  /\ Change
  /\ newest < MaxId
  /\ newest' = newest + 1
  /\ \E r \in Rows : table' = [table EXCEPT ![newest + 1] = r]
  /\ Touch(newest + 1, FALSE)
  /\ UNCHANGED <<agentUp, cached, caller, walk>>

Delete(i) ==
  /\ Change
  /\ table[i] # NULL
  /\ table' = [table EXCEPT ![i] = NULL]
  /\ Touch(i, FALSE)
  /\ UNCHANGED <<newest, agentUp, cached, caller, walk>>

(* A PATCH of the row, of its name or of other columns: a new name moves it *)
(* in the order.                                                           *)
Update(i) ==
  /\ Change
  /\ table[i] # NULL
  /\ \E r \in Rows \ {table[i]} :
       /\ r.key = table[i].key \/ (r.project = table[i].project /\ r.flag = table[i].flag)
       /\ table' = [table EXCEPT ![i] = r]
       /\ Touch(i, r.key # table[i].key /\ walk.q.order.sort = "name"
                   /\ \/ \E n \in 1 .. Len(walk.page) : walk.page[n].id = i
                      \/ walk.marker # NULL /\ walk.marker.id = i)
  /\ UNCHANGED <<newest, agentUp, cached, caller, walk>>

AgentComesOrGoes ==
  /\ Change
  /\ agentUp' = ~agentUp
  /\ UNCHANGED <<table, newest, cached, caller, walk, story>>

Step == FindMarker \/ QueryPage \/ ConvertPage \/ ConvertRaises

Next ==
  \/ walk.at = "idle" /\ \E q \in Requests : Wellformed(q) /\ GetAll(q)
  \/ Step
  \/ Insert \/ AgentComesOrGoes
  \/ \E i \in Ids : Delete(i) \/ Update(i)

Spec == Init /\ [][Next]_vars

-----------------------------------------------------------------------------
(* Properties *)

Started  == walk.at # "idle"
Returned == IF Started THEN {walk.seen[n].id : n \in 1 .. Len(walk.seen)} ELSE {}

(* What a first request asks for. Services, and for most users fleets and   *)
(* requests, are not filtered at all.                                       *)
Wanted(q, r) ==
  CASE q.list = "boards"         -> /\ q.flag => r.flag
                                    /\ r.project = (IF q.project = NULL THEN caller.project
                                                    ELSE q.project)
    [] q.list = "plugins"        -> q.all \/ r.project = caller.project \/ (q.flag /\ r.flag)
    [] q.list \in {"public_plugins", "fleet_boards", "board_webservices", "results"} -> r.flag
    [] q.list \in {"webservices", "enabled"}                    -> r.project = caller.project
    [] q.list \in {"fleets", "requests"} -> caller.admin => r.project = caller.project
    [] OTHER                     -> TRUE

(* The links of a first request ask for the same as it did: it has no       *)
(* parameter and leads to its own list.                                     *)
Keeps(q) ==
  CASE q.list = "boards"  -> q.project \in {NULL, caller.project} /\ ~q.flag
    [] q.list = "plugins" -> ~q.flag /\ ~q.all
    [] OTHER              -> q.list \notin {"public_plugins", "fleet_boards", "board_webservices", "results"}

(* A client is given no row twice, unless the row changed; and one that      *)
(* follows the links to the end is given every row it asked for that did    *)
(* not change meanwhile. The key of the marker must not have changed, the   *)
(* links must ask for the same, and the limit, where it is not refused,     *)
(* must not be 0.                                                          *)
SeenOnce ==
  Started /\ ~story.shifted =>
    \A i \in Ids \ story.touched :
      LET times == Cardinality({n \in 1 .. Len(walk.seen) : walk.seen[n].id = i}) IN
        /\ times <= 1
        /\ walk.at = "done" /\ (walk.pages = 1 \/ Keeps(walk.first)) /\ walk.first.limit # 0
             /\ table[i] # NULL /\ Wanted(walk.first, table[i]) => times = 1

(* Only rows that were asked for are returned, on the first page of any     *)
(* list and on every page of one whose links ask for the same.              *)
OnlyWanted ==
  Started /\ (walk.pages <= 1 \/ Keeps(walk.first)) =>
    \A i \in Returned \ story.touched : table[i] # NULL /\ Wanted(walk.first, table[i])
=============================================================================
