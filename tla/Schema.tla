------------------------------- MODULE Schema -------------------------------
(***************************************************************************)
(* The schema of the database and the commands of iotronic-dbsync that     *)
(* build it: upgrade, which runs the revisions one after the other, and    *)
(* create_schema, which creates the tables the models describe.            *)
(*                                                                         *)
(* The database is MySQL, as the names of the constraints in the revisions *)
(* suppose: every change of a table is committed on its own, and a foreign *)
(* key without a name is called <table>_ibfk_<n>, n being one more than the*)
(* highest in use. A command that is cut off undoes nothing.               *)
(***************************************************************************)
EXTENDS Naturals, FiniteSets, Sequences

CONSTANTS
  Operators,  \* those who run a command
  NONE,
  MaxCrashes  \* bound on commands that are cut off

ASSUME SchemaAssumption == MaxCrashes \in Nat

-----------------------------------------------------------------------------
(* Tables. All columns may be NULL unless they are required. *)

Str(n)   == <<"String", n>>
Integer  == <<"Integer">>
Boolean  == <<"Boolean">>
DateTime == <<"DateTime">>
Text     == <<"Text">>
Json     == <<"Json">>  \* JSONEncodedDict

Fields(type, names) == {[name |-> n, type |-> type, null |-> TRUE] : n \in names}
Required(fields)    == {[f EXCEPT !.null = FALSE] : f \in fields}
Unique(name, cols)  == {[name |-> name, cols |-> cols]}

(* A foreign key to the column of the same table of boards, and others.     *)
ToBoard(col, cascade) ==
  [col |-> col, ref |-> <<"boards", IF col = "board_id" THEN "id" ELSE "uuid">>,
   cascade |-> cascade]
To(col, table) == [col |-> col, ref |-> <<table, "uuid">>, cascade |-> FALSE]

(* The columns every table has: the timestamps and the primary key. *)
Common == Fields(DateTime, {"created_at", "updated_at"}) \cup Required(Fields(Integer, {"id"}))

Table(name, fields, uniques, keys) ==
  [name |-> name, fields |-> Common \cup fields, uniques |-> uniques, keys |-> keys]

-----------------------------------------------------------------------------
(* The models. *)

Conductor ==
  Table("conductors",
    Required(Fields(Str(255), {"hostname"})) \cup Fields(Boolean, {"online"}),
    Unique("uniq_conductors0hostname", {"hostname"}), <<>>)

WampAgent ==
  Table("wampagents",
    Required(Fields(Str(255), {"hostname", "wsurl"})) \cup Fields(Boolean, {"online", "ragent"}),
    Unique("uniq_wampagentss0hostname", {"hostname"}), <<>>)

Board ==
  Table("boards",
    Fields(Str(36), {"uuid", "code", "owner", "project", "fleet"})
      \cup Fields(Str(15), {"status"}) \cup Fields(Str(255), {"name", "type", "agent"})
      \cup Fields(Str(20), {"lr_version"}) \cup Fields(Boolean, {"mobile"})
      \cup Fields(Json, {"connectivity", "config", "extra"}),
    Unique("uniq_boards0uuid", {"uuid"}) \cup Unique("uniq_boards0code", {"code"}),
    <<To("fleet", "fleets")>>)

Location ==
  Table("locations",
    Fields(Str(18), {"longitude", "latitude", "altitude"}) \cup Fields(Integer, {"board_id"}),
    {}, <<ToBoard("board_id", TRUE)>>)

SessionWP ==
  Table("sessions",
    Fields(Boolean, {"valid"}) \cup Fields(Str(20), {"session_id"})
      \cup Fields(Str(36), {"board_uuid"}) \cup Fields(Integer, {"board_id"}),
    Unique("uniq_board_session_id0session_id", {"session_id", "board_uuid"}),
    <<ToBoard("board_id", TRUE)>>)

Plugin ==
  Table("plugins",
    Fields(Str(36), {"uuid", "name", "owner"}) \cup Fields(Boolean, {"public", "callable"})
      \cup Fields(Text, {"code"}) \cup Fields(Json, {"parameters", "extra"}),
    Unique("uniq_plugins0uuid", {"uuid"}), <<>>)

InjectionPlugin ==
  Table("injection_plugins",
    Fields(Str(36), {"board_uuid", "plugin_uuid"}) \cup Fields(Boolean, {"onboot"})
      \cup Fields(Str(15), {"status"}),
    {}, <<ToBoard("board_uuid", TRUE), To("plugin_uuid", "plugins")>>)

Service ==
  Table("services",
    Fields(Str(36), {"uuid", "name", "project"}) \cup Fields(Integer, {"port"})
      \cup Fields(Str(3), {"protocol"}) \cup Fields(Json, {"extra"}),
    Unique("uniq_services0uuid", {"uuid"}), <<>>)

ExposedService ==
  Table("exposed_services",
    Fields(Str(36), {"board_uuid", "service_uuid"}) \cup Fields(Integer, {"public_port"}),
    {}, <<ToBoard("board_uuid", TRUE), To("service_uuid", "services")>>)

Port ==
  Table("ports_on_boards",
    Fields(Str(40), {"board_uuid", "uuid"}) \cup Fields(Str(30), {"VIF_name"})
      \cup Fields(Str(32), {"MAC_add"}) \cup Fields(Str(36), {"ip", "network"}),
    {}, <<ToBoard("board_uuid", TRUE)>>)

Fleet ==
  Table("fleets",
    Fields(Str(36), {"uuid", "name", "project"}) \cup Fields(Str(300), {"description"})
      \cup Fields(Json, {"extra"}),
    Unique("uniq_fleets0uuid", {"uuid"}), <<>>)

Webservice ==
  Table("webservices",
    Fields(Str(36), {"uuid", "board_uuid"}) \cup Fields(Integer, {"port"})
      \cup Fields(Str(45), {"name"}) \cup Fields(Boolean, {"secure"}) \cup Fields(Json, {"extra"}),
    Unique("uniq_webservices0uuid", {"uuid"})
      \cup Unique("uniq_webservices_on_board", {"board_uuid", "port", "name"})
      \cup Unique("uniq_webservices_port_and_board", {"port", "board_uuid"}),
    <<ToBoard("board_uuid", TRUE)>>)

EnabledWebservice ==
  Table("enabled_webservices",
    Fields(Str(36), {"board_uuid"}) \cup Fields(Integer, {"http_port", "https_port"})
      \cup Fields(Str(100), {"dns", "zone"}) \cup Fields(Json, {"extra"}),
    {}, <<ToBoard("board_uuid", TRUE)>>)

Request ==
  Table("requests",
    Fields(Str(36), {"uuid", "main_request_uuid", "destination_uuid", "project"})
      \cup Fields(Integer, {"pending_requests", "type"})
      \cup Fields(Str(10), {"status"}) \cup Fields(Str(20), {"action"}),
    Unique("uniq_requests0uuid", {"uuid"}), <<To("main_request_uuid", "requests")>>)

Result ==
  Table("results",
    Fields(Str(36), {"board_uuid", "request_uuid"}) \cup Fields(Str(10), {"result"})
      \cup Fields(Text, {"message"}),
    Unique("uniq_request_on_board", {"board_uuid", "request_uuid"}), <<>>)

(* Base.metadata, in an order in which no key refers to a later table. *)
Models ==
  <<Conductor, WampAgent, Plugin, Service, Fleet, Request, Result, Board, Location, SessionWP,
    InjectionPlugin, ExposedService, Port, Webservice, EnabledWebservice>>

-----------------------------------------------------------------------------
(* What a revision does. *)

CreateTable(t)        == [do |-> "create_table", def |-> t]
AddColumn(t, f)       == [do |-> "add_column", table |-> t, field |-> f]
AlterColumn(t, f)     == [do |-> "alter_column", table |-> t, field |-> f]
AddKey(t, key)        == [do |-> "add_key", table |-> t, key |-> key]
DropKey(t, n)         == [do |-> "drop_key", table |-> t, n |-> n]
AddUnique(t, unique)  == [do |-> "add_unique", table |-> t, unique |-> unique]
DropUnique(t, name)   == [do |-> "drop_unique", table |-> t, name |-> name]

Column(name, type)    == [name |-> name, type |-> type, null |-> TRUE]

(* df35e9cbeaff, init schema *)
InitBoards ==
  Table("boards",
    Fields(Str(36), {"uuid", "owner", "project"}) \cup Fields(Str(25), {"code"})
      \cup Fields(Str(15), {"status"}) \cup Fields(Str(255), {"name", "type", "agent"})
      \cup Fields(Boolean, {"mobile"}) \cup Fields(Json, {"config", "extra"}),
    Unique("uniq_boards0code", {"code"}) \cup Unique("uniq_boards0uuid", {"uuid"}), <<>>)
InitConductors ==
  Table("conductors",
    Required(Fields(Str(255), {"hostname"})) \cup Fields(Boolean, {"online"}),
    Unique("uniq_conductors0hostname", {"hostname"}), <<>>)
InitPlugins ==
  Table("plugins",
    Fields(Str(36), {"uuid", "name", "owner"}) \cup Fields(Boolean, {"public", "callable"})
      \cup Fields(Text, {"code"}) \cup Fields(Json, {"parameters", "extra"}),
    Unique("uniq_plugins0uuid", {"uuid"}), <<>>)
InitServices ==
  Table("services",
    Fields(Str(36), {"uuid", "name", "project"}) \cup Fields(Integer, {"port"})
      \cup Fields(Str(3), {"protocol"}) \cup Fields(Json, {"extra"}),
    Unique("uniq_services0uuid", {"uuid"}), <<>>)
InitWampagents ==
  Table("wampagents",
    Required(Fields(Str(255), {"hostname", "wsurl"})) \cup Fields(Boolean, {"online", "ragent"}),
    Unique("uniq_wampagentss0hostname", {"hostname"}), <<>>)
InitExposedServices ==
  Table("exposed_services",
    Fields(Str(36), {"board_uuid", "service_uuid"}) \cup Fields(Integer, {"public_port"}),
    {}, <<ToBoard("board_uuid", FALSE), To("service_uuid", "services")>>)
InitInjectionPlugins ==
  Table("injection_plugins",
    Fields(Str(36), {"board_uuid", "plugin_uuid"}) \cup Fields(Boolean, {"onboot"})
      \cup Fields(Str(15), {"status"}),
    {}, <<ToBoard("board_uuid", FALSE), To("plugin_uuid", "plugins")>>)
InitLocations ==
  Table("locations",
    Fields(Str(18), {"longitude", "latitude", "altitude"}) \cup Fields(Integer, {"board_id"}),
    {}, <<ToBoard("board_id", FALSE)>>)
InitPortsOnBoards ==
  Table("ports_on_boards",
    Fields(Str(40), {"board_uuid", "uuid"}) \cup Fields(Str(30), {"VIF_name"})
      \cup Fields(Str(32), {"MAC_add"}) \cup Fields(Str(36), {"ip", "network"}),
    {}, <<ToBoard("board_uuid", FALSE)>>)
InitSessions ==
  Table("sessions",
    Fields(Boolean, {"valid"}) \cup Fields(Str(20), {"session_id"})
      \cup Fields(Str(36), {"board_uuid"}) \cup Fields(Integer, {"board_id"}),
    Unique("uniq_board_session_id0session_id", {"session_id", "board_uuid"}),
    <<ToBoard("board_id", FALSE)>>)

InitTables ==
  <<InitBoards, InitConductors, InitPlugins, InitServices, InitWampagents, InitExposedServices,
    InitInjectionPlugins, InitLocations, InitPortsOnBoards, InitSessions>>
InitSchema == [i \in DOMAIN InitTables |-> CreateTable(InitTables[i])]

(* b578199e4e64 *)
AddFleets ==
  <<CreateTable(Table("fleets",
      Fields(Str(36), {"uuid", "name", "project"}) \cup Fields(Str(300), {"description"})
        \cup Fields(Json, {"extra"}),
      Unique("uniq_fleets0uuid", {"uuid"}), <<>>))>>

(* 9c5c34dfd9f1 *)
AddBoardsInFleet ==
  <<AddColumn("boards", Column("fleet", Str(36))), AddKey("boards", To("fleet", "fleets"))>>

(* f28f3f4494b3 *)
EnabledWebservicesTable ==
  Table("enabled_webservices",
    Fields(Str(36), {"board_uuid"}) \cup Fields(Integer, {"http_port", "https_port"})
      \cup Fields(Str(100), {"dns", "zone"}) \cup Fields(Json, {"extra"}),
    {}, <<ToBoard("board_uuid", FALSE)>>)
WebservicesTable ==
  Table("webservices",
    Fields(Str(36), {"uuid", "board_uuid"}) \cup Fields(Integer, {"port"})
      \cup Fields(Str(45), {"name"}) \cup Fields(Boolean, {"secure"}) \cup Fields(Json, {"extra"}),
    Unique("uniq_enabled_webservices0uuid", {"uuid"})
      \cup Unique("uniq_webservices_port_and_board", {"port", "board_uuid"})
      \cup Unique("uniq_webservices_on_board", {"board_uuid", "port", "name"}),
    <<ToBoard("board_uuid", FALSE)>>)
AddWebservices == <<CreateTable(EnabledWebservicesTable), CreateTable(WebservicesTable)>>

(* b98819997377 *)
BoardsLrData ==
  <<AddColumn("boards", Column("lr_version", Str(20))),
    AddColumn("boards", Column("connectivity", Json))>>

(* 76c628d60004 *)
RequestsTable ==
  Table("requests",
    Fields(Str(36), {"main_request_uuid", "project"})
      \cup Required(Fields(Str(36), {"uuid", "destination_uuid"})
             \cup Fields(Integer, {"pending_requests", "type"})
             \cup Fields(Str(10), {"status"}) \cup Fields(Str(20), {"action"})),
    Unique("uniq_requests0uuid", {"uuid"}), <<To("main_request_uuid", "requests")>>)
ResultsTable ==
  Table("results",
    Fields(Text, {"message"})
      \cup Required(Fields(Str(36), {"board_uuid", "request_uuid"}) \cup Fields(Str(10), {"result"})),
    Unique("uniq_request_on_board", {"board_uuid", "request_uuid"}),
    <<ToBoard("board_uuid", FALSE), To("request_uuid", "requests")>>)
AddResultsRequests == <<CreateTable(RequestsTable), CreateTable(ResultsTable)>>

(* 57a99337e843: a key is dropped by its name and made anew with a cascade. *)
Cascade(t, col) == <<DropKey(t, 1), AddKey(t, ToBoard(col, TRUE))>>
Nullable(t, type, names) == [i \in DOMAIN names |-> AlterColumn(t, Column(names[i], type))]

(* Mutant: the old constraint goes before the new one is there. *)
RenameUuidEarly ==
  <<DropUnique("webservices", "uniq_enabled_webservices0uuid"),
    AddUnique("webservices", [name |-> "uniq_webservices0uuid", cols |-> {"uuid"}])>>

RenameUuid ==
  <<AddUnique("webservices", [name |-> "uniq_webservices0uuid", cols |-> {"uuid"}]),
    DropUnique("webservices", "uniq_enabled_webservices0uuid")>>

(* Mutant: the columns of results stay required. *)
HardDeviceDeletePart ==
  Cascade("enabled_webservices", "board_uuid") \o Cascade("exposed_services", "board_uuid")
  \o Cascade("injection_plugins", "board_uuid") \o Cascade("locations", "board_id")
  \o Cascade("ports_on_boards", "board_uuid")
  \o Nullable("requests", Str(20), <<"action">>)
  \o Nullable("requests", Str(36), <<"destination_uuid">>)
  \o Nullable("requests", Integer, <<"pending_requests">>)
  \o Nullable("requests", Str(10), <<"status">>) \o Nullable("requests", Integer, <<"type">>)
  \o Nullable("requests", Str(36), <<"uuid">>)
  \o <<DropKey("results", 1), DropKey("results", 2)>>
  \o Cascade("sessions", "board_id") \o RenameUuid \o Cascade("webservices", "board_uuid")

HardDeviceDelete ==
  Cascade("enabled_webservices", "board_uuid") \o Cascade("exposed_services", "board_uuid")
  \o Cascade("injection_plugins", "board_uuid") \o Cascade("locations", "board_id")
  \o Cascade("ports_on_boards", "board_uuid")
  \o Nullable("requests", Str(20), <<"action">>)
  \o Nullable("requests", Str(36), <<"destination_uuid">>)
  \o Nullable("requests", Integer, <<"pending_requests">>)
  \o Nullable("requests", Str(10), <<"status">>) \o Nullable("requests", Integer, <<"type">>)
  \o Nullable("requests", Str(36), <<"uuid">>)
  \o Nullable("results", Str(36), <<"board_uuid", "request_uuid">>)
  \o Nullable("results", Str(10), <<"result">>)
  \o <<DropKey("results", 1), DropKey("results", 2)>>
  \o Cascade("sessions", "board_id") \o RenameUuid \o Cascade("webservices", "board_uuid")

(* 10460765f337: MODIFY gives the column its full type. *)
ExtendedBoardCode == <<AlterColumn("boards", [Column("code", Str(36)) EXCEPT !.null = FALSE])>>

(* The revisions in the order their down_revision gives; from here on a     *)
(* revision is its place in this list, and 0 a database without a version.  *)
Revisions ==
  <<InitSchema, AddFleets, AddBoardsInFleet, AddWebservices, BoardsLrData, AddResultsRequests,
    HardDeviceDelete, ExtendedBoardCode>>
HeadRevision == Len(Revisions)

(* NONE is no command and no list of tables; no revision has more than 27   *)
(* changes.                                                                *)
ASSUME NoneAssumption ==
  /\ \A i \in 1 .. 28, target \in 1 .. 8, at \in 0 .. 7 :
       NONE # [kind |-> "upgrade", i |-> i, target |-> target, at |-> at]
  /\ \A todo \in SUBSET (1 .. 15) : NONE # todo /\ NONE # [kind |-> "create", todo |-> todo]
  /\ NONE # [kind |-> "create", todo |-> NONE]

-----------------------------------------------------------------------------
VARIABLES
  db,       \* the tables there are: name -> [fields, uniques, keys : {<<number, key>>}]
  rows,     \* the rows of alembic_version
  job,      \* the command an operator is running, and how far it is
  broken,   \* a command was cut off or raised in the middle of a revision, or two overlapped
  partial,  \* create_schema met tables it had not created
  crashes

ghosts     == <<broken, partial, crashes>>
schemaVars == <<db, rows, job, ghosts>>

InitDatabase ==
  /\ db = [t \in {} |-> NONE]
  /\ rows = {}
  /\ job = [o \in Operators |-> NONE]
  /\ broken = FALSE /\ partial = FALSE /\ crashes = 0

Field(t, name) == CHOOSE f \in db[t].fields : f.name = name
HasField(t, name) == \E f \in db[t].fields : f.name = name

(* MySQL refuses what is there already and what is not there. *)
CanApply(op) ==
  CASE op.do = "create_table" ->
         /\ op.def.name \notin DOMAIN db
         /\ \A i \in DOMAIN op.def.keys :
              op.def.keys[i].ref[1] \in DOMAIN db \cup {op.def.name}
    [] op.do = "add_column"   -> op.table \in DOMAIN db /\ ~HasField(op.table, op.field.name)
    [] op.do = "alter_column" -> op.table \in DOMAIN db /\ HasField(op.table, op.field.name)
    [] op.do = "add_key"      -> {op.table, op.key.ref[1]} \subseteq DOMAIN db
    [] op.do = "drop_key"     -> op.table \in DOMAIN db /\ \E k \in db[op.table].keys : k[1] = op.n
    [] op.do = "add_unique"   ->
         op.table \in DOMAIN db /\ \A u \in db[op.table].uniques : u.name # op.unique.name
    [] op.do = "drop_unique"  ->
         op.table \in DOMAIN db /\ \E u \in db[op.table].uniques : u.name = op.name

NextNumber(keys) == CHOOSE n \in 1 .. Cardinality(keys) + 2 :
  /\ \A k \in keys : k[1] < n
  /\ n = 1 \/ \E k \in keys : k[1] = n - 1

Applied(op) ==
  CASE op.do = "create_table" ->
         [t \in DOMAIN db \cup {op.def.name} |->
            IF t # op.def.name THEN db[t]
            ELSE [fields |-> op.def.fields, uniques |-> op.def.uniques,
                  keys |-> {<<i, op.def.keys[i]>> : i \in DOMAIN op.def.keys}]]
    [] op.do = "add_column"   -> [db EXCEPT ![op.table].fields = @ \cup {op.field}]
    [] op.do = "alter_column" ->
         [db EXCEPT ![op.table].fields =
            (@ \ {Field(op.table, op.field.name)}) \cup {op.field}]
    [] op.do = "add_key"      ->
         [db EXCEPT ![op.table].keys = @ \cup {<<NextNumber(@), op.key>>}]
    [] op.do = "drop_key"     -> [db EXCEPT ![op.table].keys = {k \in @ : k[1] # op.n}]
    [] op.do = "add_unique"   -> [db EXCEPT ![op.table].uniques = @ \cup {op.unique}]
    [] op.do = "drop_unique"  -> [db EXCEPT ![op.table].uniques = {u \in @ : u.name # op.name}]

Busy    == {o \in Operators : job[o] # NONE}
Done(o) == job' = [job EXCEPT ![o] = NONE]

Begin(o, j) ==
  /\ job[o] = NONE
  /\ job' = [job EXCEPT ![o] = j]
  /\ broken' = (broken \/ Busy # {})

-----------------------------------------------------------------------------
(* iotronic-dbsync upgrade [--revision] *)

(* The plan is made from the version read here; more than one row raises.   *)
Upgrade(o, target) ==
  /\ Cardinality(rows) <= 1
  /\ \A v \in rows : target > v
  /\ Begin(o, [kind |-> "upgrade", i |-> 1, target |-> target,
               at |-> IF rows = {} THEN 0 ELSE CHOOSE v \in rows : TRUE])
  /\ UNCHANGED <<db, rows, partial, crashes>>

Running(o, kind) == job[o] # NONE /\ job[o].kind = kind
GoingRevision(o)  == Revisions[job[o].at + 1]
NextOp(o) == GoingRevision(o)[job[o].i]
Applying(o) == Running(o, "upgrade") /\ job[o].i <= Len(GoingRevision(o))

ApplyChange(o) ==
  /\ Applying(o)
  /\ CanApply(NextOp(o))
  /\ db' = Applied(NextOp(o))
  /\ job' = [job EXCEPT ![o].i = @ + 1]
  /\ UNCHANGED <<rows, ghosts>>

(* The row of the version is updated where it still is the one before.      *)
CanUpdate(o) ==
  IF job[o].at = 0 THEN 1 \notin rows ELSE job[o].at \in rows

(* Mutant: the version is written before the changes of the revision.       *)
UpdateVersionEarly(o) ==
  LET v == job[o].at + 1
  IN /\ Running(o, "upgrade")
     /\ job[o].i = 1
     /\ rows' = (rows \ {job[o].at}) \cup {v}
     /\ job' = [job EXCEPT ![o] = IF v = job[o].target THEN NONE ELSE [@ EXCEPT !.at = v, !.i = 1]]
     /\ UNCHANGED <<db, ghosts>>

UpdateVersion(o) ==
  LET v == job[o].at + 1
  IN /\ Running(o, "upgrade") /\ ~Applying(o)
     /\ CanUpdate(o)
     /\ rows' = (rows \ {job[o].at}) \cup {v}
     /\ job' = [job EXCEPT ![o] = IF v = job[o].target THEN NONE ELSE [@ EXCEPT !.at = v, !.i = 1]]
     /\ UNCHANGED <<db, ghosts>>

-----------------------------------------------------------------------------
(* iotronic-dbsync create_schema *)

(* version() is None. *)
CreateSchema(o) ==
  /\ rows = {}
  /\ Begin(o, [kind |-> "create", todo |-> NONE])
  /\ UNCHANGED <<db, rows, partial, crashes>>

(* create_all: the tables that are missing, in their order. *)
ListMissing(o) ==
  /\ Running(o, "create") /\ job[o].todo = NONE
  /\ job' = [job EXCEPT ![o].todo = {i \in DOMAIN Models : Models[i].name \notin DOMAIN db}]
  /\ partial' = (partial \/ DOMAIN db # {})
  /\ UNCHANGED <<db, rows, broken, crashes>>

Creating(o) == Running(o, "create") /\ job[o].todo # NONE
First(todo) == CHOOSE i \in todo : \A j \in todo : i <= j
NextModel(o) == CreateTable(Models[First(job[o].todo)])

CreateModel(o) ==
  /\ Creating(o) /\ job[o].todo # {}
  /\ CanApply(NextModel(o))
  /\ db' = Applied(NextModel(o))
  /\ job' = [job EXCEPT ![o].todo = @ \ {First(@)}]
  /\ UNCHANGED <<rows, ghosts>>

(* stamp('head'): whatever version it finds becomes the last one. *)
Stamp(o) ==
  /\ Creating(o) /\ job[o].todo = {}
  /\ Cardinality(rows) <= 1
  /\ rows' = {HeadRevision}
  /\ Done(o)
  /\ UNCHANGED <<db, ghosts>>

-----------------------------------------------------------------------------
(* A change or an update of the version raises. *)
Raise(o) ==
  /\ \/ Applying(o) /\ ~CanApply(NextOp(o))
     \/ Running(o, "upgrade") /\ ~Applying(o) /\ ~CanUpdate(o)
     \/ Creating(o) /\ job[o].todo # {} /\ ~CanApply(NextModel(o))
     \/ Creating(o) /\ job[o].todo = {} /\ Cardinality(rows) > 1
  /\ Done(o)
  /\ UNCHANGED <<db, rows, ghosts>>

(* The command or its connection is killed; between two revisions nothing   *)
(* is left half done.                                                       *)
CutOff(o) ==
  /\ job[o] # NONE
  /\ crashes < MaxCrashes
  /\ crashes' = crashes + 1
  /\ broken' = (broken \/ IF Running(o, "upgrade") THEN job[o].i > 1 ELSE Creating(o))
  /\ Done(o)
  /\ UNCHANGED <<db, rows, partial>>

SchemaNext ==
  \E o \in Operators :
    \/ \E target \in DOMAIN Revisions : Upgrade(o, target)
    \/ ApplyChange(o) \/ UpdateVersion(o)
    \/ CreateSchema(o) \/ ListMissing(o) \/ CreateModel(o) \/ Stamp(o)
    \/ Raise(o) \/ CutOff(o)

SchemaSpec == InitDatabase /\ [][SchemaNext]_schemaVars

-----------------------------------------------------------------------------
(* Properties *)

(* A table as the models and the revisions can be compared: a key has no    *)
(* number, and nothing is said of whether boards.code may be NULL, which    *)
(* the last revision forbids and the model does not.                        *)
Shape(name, fields, uniques, keys) ==
  [fields  |-> {IF name = "boards" /\ f.name = "code" THEN [f EXCEPT !.null = TRUE] ELSE f :
                  f \in fields},
   uniques |-> uniques, keys |-> keys]
Modelled == [n \in {Models[i].name : i \in DOMAIN Models} |->
  LET t == CHOOSE t \in {Models[i] : i \in DOMAIN Models} : t.name = n
  IN Shape(n, t.fields, t.uniques, {t.keys[i] : i \in DOMAIN t.keys})]
Built == [n \in DOMAIN db |->
  Shape(n, db[n].fields, db[n].uniques, {k[2] : k \in db[n].keys})]

(* A database at the last revision has the tables, columns, constraints and *)
(* cascades of the models, whether it was upgraded in one go, revision by   *)
(* revision, after a command cut off between two revisions, or created from *)
(* the models.                                                              *)
HeadIsModels ==
  rows = {HeadRevision} /\ Busy = {} /\ ~broken => Built = Modelled

(* The columns the revision r makes. *)
Columns(r) == UNION {LET op == Revisions[r][i] IN
  IF op.do = "create_table" THEN {<<op.def.name, f.name>> : f \in op.def.fields}
  ELSE IF op.do = "add_column" THEN {<<op.table, op.field.name>>} ELSE {} : i \in DOMAIN Revisions[r]}

(* The version never runs ahead of the schema, whatever is cut off, raises  *)
(* or overlaps: what the revisions up to it create is there. A create_schema*)
(* that finds the tables of an upgrade cut off in its first revision breaks *)
(* this: there is no version then, so it keeps them and stamps the last one.*)
VersionIsBehind ==
  partial \/ \A v \in rows : \A r \in 1 .. v : \A c \in Columns(r) :
    c[1] \in DOMAIN db /\ HasField(c[1], c[2])

(* At no moment, between two changes of a revision included, may two rows   *)
(* of a table have one uuid: get_..._by_uuid relies on it. The model of     *)
(* ports has no such constraint.                                            *)
UuidIsUnique ==
  \A t \in DOMAIN db \ {"ports_on_boards"} :
    HasField(t, "uuid") => \E u \in db[t].uniques : u.cols = {"uuid"}
=============================================================================
