------------------------------ MODULE Records ------------------------------
(***************************************************************************)
(* The life of the objects of one class over the rows of its table: what   *)
(* the methods of iotronic/objects call, and what db/sqlalchemy/api.py     *)
(* does then. A method works only where both sides do: some objects call   *)
(* functions that the database layer lacks, or fields they do not have.    *)
(***************************************************************************)
EXTENDS Objects, Naturals, Sequences

CONSTANTS
  Holders,   \* who hold an object: threads of the API and of the conductor
  Uuids,
  Values,    \* of every other column
  MaxRows,   \* that are ever created
  MaxCalls,
  NULL

ASSUME RecordsAssumption ==
  MaxRows \in Nat \ {0} /\ MaxCalls \in Nat /\ NULL \notin Uuids \cup Values

VARIABLES
  class,     \* the class, of the records below
  rows,      \* the rows in the order of their ids, NULL if destroyed
  obj,       \* holder |-> an object, or NULL
  calls,
  own,       \* ghost: holder |-> the columns assigned and not written yet
  refused,   \* ghost: holder |-> the columns whose new value was refused
  intent     \* ghost: like rows, what was last assigned and written; NULL if it
             \* was written because a value was refused

vars == <<class, rows, obj, calls, own, refused, intent>>

-----------------------------------------------------------------------------
(* The tables: the columns that matter, and the constraints                *)

Table(columns, unique) == [columns |-> columns \cup {"data"}, unique |-> unique]

BoardTable             == Table({"uuid", "code", "name"}, {{"uuid"}, {"code"}})
NamedTable             == Table({"uuid", "name"}, {{"uuid"}})
WebserviceTable        == Table({"uuid", "name", "port"}, {{"uuid"}, {"port"}})
PortTable              == Table({"uuid", "board"}, {})
RequestTable           == Table({"uuid"}, {{"uuid"}})
ResultTable            == Table({"board", "request"}, {{"board", "request"}})
InjectionPluginTable   == Table({"board", "plugin"}, {})
ExposedServiceTable    == Table({"board", "service"}, {})
EnabledWebserviceTable == Table({"board"}, {})
LocationTable          == Table({"board"}, {})
SessionWPTable         == Table({"session", "board"}, {{"session", "board"}})
HostTable              == Table({"hostname"}, {{"hostname"}})

-----------------------------------------------------------------------------
(* The queries: by which columns one row is read, or all that match        *)

Queries(one, all) == [one |-> one, all |-> all]

BoardQueries             == Queries({{"id"}, {"uuid"}, {"name"}, {"code"}}, {})
PluginQueries            == Queries({{"id"}, {"uuid"}, {"name"}}, {})
ServiceQueries           == Queries({{"id"}, {"uuid"}, {"name"}}, {})
FleetQueries             == Queries({{"id"}, {"uuid"}, {"name"}}, {})
WebserviceQueries        == Queries({{"id"}, {"uuid"}, {"name"}}, {})
PortQueries              == Queries({{"id"}, {"uuid"}, {"name"}}, {{"board"}})
RequestQueries           == Queries({{"id"}, {"uuid"}}, {})
ResultQueries            == Queries({{"board", "request"}}, {{}})
InjectionPluginQueries   == Queries({{"board"}, {"board", "plugin"}}, {{"board"}})
ExposedServiceQueries    == Queries({{"board", "service"}}, {{"board"}, {}})
EnabledWebserviceQueries == Queries({{"id"}, {"board"}}, {})
LocationQueries          == Queries({}, {{"board"}})
SessionWPQueries         == Queries({{"session"}}, {})
ConductorQueries         == Queries({{"hostname"}}, {})
WampAgentQueries         == Queries({{"hostname"}}, {})

-----------------------------------------------------------------------------
(* The writes: whether create makes up a uuid, which of the others exist,  *)
(* and whether a destroy that finds no row raises                          *)

Writes(fresh, calls_, strict) == [fresh |-> fresh, calls |-> calls_, strict |-> strict]
All == {"create", "update", "destroy"}

BoardWrites             == Writes(TRUE, All, TRUE)
PluginWrites            == Writes(TRUE, All, TRUE)
ServiceWrites           == Writes(TRUE, All, TRUE)
FleetWrites             == Writes(TRUE, All, TRUE)
WebserviceWrites        == Writes(TRUE, All, TRUE)
PortWrites              == Writes(FALSE, {"create", "destroy"}, TRUE)
RequestWrites           == Writes(TRUE, {"create", "update"}, TRUE)
ResultWrites            == Writes(FALSE, {"create", "update"}, TRUE)
InjectionPluginWrites   == Writes(FALSE, All, FALSE)
ExposedServiceWrites    == Writes(FALSE, All, FALSE)
EnabledWebserviceWrites == Writes(FALSE, {"create", "destroy"}, TRUE)
LocationWrites          == Writes(FALSE, All, TRUE)
SessionWPWrites         == Writes(FALSE, {"create", "update"}, TRUE)
HostWrites              == Writes(FALSE, {}, TRUE)

-----------------------------------------------------------------------------
(* The objects: by what they are got, and what identifies the row to the   *)
(* other methods, NULL if a class lacks the method                         *)

BoardGetters             == Queries({{"id"}, {"uuid"}, {"code"}, {"name"}}, {})
PluginGetters            == Queries({{"id"}, {"uuid"}, {"name"}}, {})
ServiceGetters           == Queries({{"id"}, {"uuid"}, {"name"}}, {})
FleetGetters             == Queries({{"id"}, {"uuid"}, {"name"}}, {})
WebserviceGetters        == Queries({{"id"}, {"uuid"}, {"name"}}, {})
PortGetters              == Queries({{"id"}, {"uuid"}, {"name"}}, {{"board"}})
RequestGetters           == Queries({{"id"}, {"uuid"}}, {})
ResultGetters            == Queries({{"board", "request"}}, {{}})
InjectionPluginGetters   == Queries({{"id"}, {"board"}, {"plugin"}, {"board", "plugin"}}, {{"board"}})
ExposedServiceGetters    == Queries({{"id"}, {"service"}, {"board", "service"}}, {{"board"}, {}})
EnabledWebserviceGetters == Queries({{"id"}, {"board"}}, {})
LocationGetters          == Queries({{"id"}}, {{"board"}})
SessionWPGetters         == Queries({{"session"}}, {})
ConductorGetters         == Queries({{"hostname"}}, {})
WampAgentGetters         == Queries({{"hostname"}}, {})

Methods(save, destroy, refresh) == [save |-> save, destroy |-> destroy, refresh |-> refresh]

BoardMethods             == Methods("uuid", "uuid", "uuid")
PluginMethods            == Methods("uuid", "uuid", "uuid")
ServiceMethods           == Methods("uuid", "uuid", "uuid")
FleetMethods             == Methods("uuid", "uuid", "uuid")
WebserviceMethods        == Methods("uuid", "uuid", "uuid")
PortMethods              == Methods("uuid", "uuid", "uuid")
RequestMethods           == Methods("uuid", NULL, NULL)
ResultMethods            == Methods("id", NULL, NULL)
InjectionPluginMethods   == Methods("id", "id", NULL)
ExposedServiceMethods    == Methods("id", "id", NULL)
EnabledWebserviceMethods == Methods("uuid", "id", "uuid")
LocationMethods          == Methods("uuid", "uuid", NULL)
SessionWPMethods         == Methods("id", "uuid", "uuid")
ConductorMethods         == Methods(NULL, NULL, "hostname")
WampAgentMethods         == Methods(NULL, NULL, "hostname")

(* The setters that the callers of a class use, and whether its objects     *)
(* are arguments of calls to the conductor.                                *)
Class(table, queries, writes, getters, methods, sets, sent) ==
  [table |-> table, queries |-> queries, writes |-> writes, getters |-> getters,
   methods |-> methods, sets |-> sets, sent |-> sent]

Classes == {
  Class(BoardTable, BoardQueries, BoardWrites, BoardGetters, BoardMethods,
        {"name", "code", "data"}, TRUE),
  Class(NamedTable, PluginQueries, PluginWrites, PluginGetters, PluginMethods,
        {"name", "data"}, TRUE),
  Class(NamedTable, ServiceQueries, ServiceWrites, ServiceGetters, ServiceMethods,
        {"name", "data"}, TRUE),
  Class(NamedTable, FleetQueries, FleetWrites, FleetGetters, FleetMethods,
        {"name", "data"}, TRUE),
  Class(WebserviceTable, WebserviceQueries, WebserviceWrites, WebserviceGetters,
        WebserviceMethods, {"data"}, TRUE),
  Class(PortTable, PortQueries, PortWrites, PortGetters, PortMethods, {"data"}, FALSE),
  Class(RequestTable, RequestQueries, RequestWrites, RequestGetters, RequestMethods,
        {"data"}, FALSE),
  Class(ResultTable, ResultQueries, ResultWrites, ResultGetters, ResultMethods,
        {"data"}, FALSE),
  Class(InjectionPluginTable, InjectionPluginQueries, InjectionPluginWrites,
        InjectionPluginGetters, InjectionPluginMethods, {"data"}, FALSE),
  Class(ExposedServiceTable, ExposedServiceQueries, ExposedServiceWrites,
        ExposedServiceGetters, ExposedServiceMethods, {"data"}, FALSE),
  Class(EnabledWebserviceTable, EnabledWebserviceQueries, EnabledWebserviceWrites,
        EnabledWebserviceGetters, EnabledWebserviceMethods, {"data"}, FALSE),
  Class(LocationTable, LocationQueries, LocationWrites, LocationGetters,
        LocationMethods, {"data"}, FALSE),
  Class(SessionWPTable, SessionWPQueries, SessionWPWrites, SessionWPGetters,
        SessionWPMethods, {"data"}, FALSE),
  Class(HostTable, ConductorQueries, HostWrites, ConductorGetters, ConductorMethods,
        {"data"}, FALSE),
  Class(HostTable, WampAgentQueries, HostWrites, WampAgentGetters, WampAgentMethods,
        {"data"}, FALSE)}


Columns == class.table.columns
Ids     == DOMAIN rows
Live    == {i \in Ids : rows[i] # NULL}
Whole(i) == With(rows[i], "id", i)

Domain(c) == IF c = "uuid" THEN Uuids ELSE Values
RowsOf(columns) == {r \in [columns -> Uuids \cup Values] : \A c \in columns : r[c] \in Domain(c)}

(* A table with one row, written by whatever came before. *)
Init ==
  /\ class \in Classes
  /\ \E u \in Uuids, v \in Values :
       rows = <<[c \in Columns |-> IF c = "uuid" THEN u ELSE v]>>
  /\ obj = [h \in Holders |-> NULL]
  /\ calls = 0
  /\ own = [h \in Holders |-> {}]
  /\ refused = own
  /\ intent = rows

-----------------------------------------------------------------------------
Called == calls < MaxCalls /\ calls' = calls + 1 /\ UNCHANGED class
Hold(h, o, assigned) ==
  /\ obj' = [obj EXCEPT ![h] = o]
  /\ own' = [own EXCEPT ![h] = assigned]
  /\ refused' = [refused EXCEPT ![h] = IF o.changed = {} THEN {} ELSE @ \ assigned]

(* The rows that agree with a set of values on the columns of a lookup.     *)
Match(lookup, vals) == {i \in Live : \A c \in lookup : Whole(i)[c] = vals[c]}

(* query.one(): a lookup of the class and of the database layer, by columns *)
(* that the table has, which one row alone agrees with.                    *)
One(i) ==
  \E lookup \in class.getters.one \cap class.queries.one :
    lookup \subseteq {"id"} \cup Columns /\ Match(lookup, Whole(i)) = {i}
Listed == class.getters.all \cap class.queries.all # {}

Get(h) ==
  /\ Called
  /\ \E i \in Live : (One(i) \/ Listed) /\ Hold(h, FromDbObject(Whole(i)), {})
  /\ UNCHANGED <<rows, intent>>

(* An object made of the body of a request, or by the conductor, with a     *)
(* uuid or without.                                                        *)
New(h) ==
  /\ Called /\ obj[h] = NULL /\ "create" \in class.writes.calls
  /\ \E columns \in {Columns, Columns \ {"uuid"}} : \E values \in RowsOf(columns) :
       Hold(h, NewObject(values), columns)
  /\ UNCHANGED <<rows, intent>>

Set(h) ==
  /\ Called /\ obj[h] # NULL
  /\ \E c \in class.sets, v \in Values : Hold(h, SetField(obj[h], c, v), own[h] \cup {c})
  /\ UNCHANGED <<rows, intent>>

(* Only objects that were read or created are saved, destroyed or refreshed. *)
Made(h) == obj[h] # NULL /\ "id" \in DOMAIN obj[h].vals

(* A PATCH with a value that is not of the type of its field. *)
SetRefused(h) ==
  /\ Called /\ Made(h) /\ class.sent
  /\ obj' = [obj EXCEPT ![h] = RefuseField(@, "data")]
  /\ refused' = [refused EXCEPT ![h] = @ \cup ({"data"} \ own[h])]
  /\ UNCHANGED <<rows, own, intent>>

Conflicts(i, row) ==
  \E key \in class.table.unique : \E j \in Live \ {i} : \A c \in key : rows[j][c] = row[c]

Known(u) == \/ \E i \in Live : rows[i]["uuid"] = u
            \/ \E h \in Holders : obj[h] # NULL /\ "uuid" \in DOMAIN obj[h].vals
                                  /\ obj[h].vals["uuid"] = u

(* obj_get_changes, and a uuid made up where there is none *)
Complete(o) ==
  IF "uuid" \in Columns /\ "uuid" \notin o.changed
  THEN IF class.writes.fresh THEN {With(Changes(o), "uuid", u) : u \in {w \in Uuids : ~Known(w)}}
       ELSE {}
  ELSE {Changes(o)}

Create(h) ==
  /\ Called /\ Len(rows) < MaxRows
  /\ obj[h] # NULL /\ ~Made(h)
  /\ \E row \in Complete(obj[h]) :
       /\ ~Conflicts(0, row)
       /\ rows' = Append(rows, row)
       /\ intent' = Append(intent, row)
       /\ Hold(h, FromDbObject(With(row, "id", Len(rows) + 1)), {})

(* The row that a method of an object is about. *)
Target(h, column) ==
  IF Made(h) /\ column \in DOMAIN obj[h].vals THEN Match({column}, obj[h].vals) ELSE {}

(* update_...: the uuid cannot be overwritten, and a value that another row *)
(* must not have is a duplicate.                                           *)
CanSave(h, i) ==
  /\ "update" \in class.writes.calls
  /\ "uuid" \notin obj[h].changed
  /\ ~Conflicts(i, Saved(rows[i], obj[h]))

Save(h) ==
  /\ Called
  /\ \E i \in Target(h, class.methods.save) :
       /\ CanSave(h, i)
       /\ rows' = [rows EXCEPT ![i] = [c \in Columns |-> Saved(@, obj[h])[c]]]
       /\ intent' = [intent EXCEPT ![i] = [c \in Columns |->
            IF c \in own[h] THEN obj[h].vals[c] ELSE IF c \in refused[h] THEN NULL ELSE @[c]]]
  /\ Hold(h, ResetChanges(obj[h]), {})

(* Mutant: the changes are reset first. *)
SaveRaisesReset(h) ==
  /\ Called /\ Made(h) /\ class.methods.save # NULL
  /\ ~\E i \in Target(h, class.methods.save) : CanSave(h, i)
  /\ Hold(h, ResetChanges(obj[h]), own[h])
  /\ UNCHANGED <<rows, intent>>

(* No row, a duplicate, or no function to call: the changes are kept.       *)
SaveRaises(h) ==
  /\ Called /\ Made(h) /\ class.methods.save # NULL
  /\ ~\E i \in Target(h, class.methods.save) : CanSave(h, i)
  /\ UNCHANGED <<rows, obj, own, refused, intent>>

Destroy(h) ==
  /\ Called /\ Made(h) /\ "destroy" \in class.writes.calls
  /\ class.methods.destroy \in DOMAIN obj[h].vals
  /\ LET gone == Target(h, class.methods.destroy) IN
       /\ gone # {} \/ ~class.writes.strict
       /\ rows' = [i \in Ids |-> IF i \in gone THEN NULL ELSE rows[i]]
       /\ intent' = [i \in Ids |-> IF i \in gone THEN NULL ELSE intent[i]]
  /\ Hold(h, ResetChanges(obj[h]), {})

(* What the row has and the object does not is assigned to the object, so   *)
(* that its next save writes it.                                           *)
RefreshObject(h) ==
  /\ Called
  /\ \E i \in Target(h, class.methods.refresh) :
       LET o == Refresh(obj[h], Whole(i))
       IN Hold(h, o, own[h] \cup {c \in DOMAIN o.vals : o.vals[c] # obj[h].vals[c]})
  /\ UNCHANGED <<rows, intent>>

(* An argument of a call of the API to the conductor, or the answer.        *)
Send(h, g) ==
  /\ Called /\ class.sent
  /\ obj[h] # NULL /\ obj[g] = NULL
  /\ obj' = [obj EXCEPT ![g] = FromPrimitive(ToPrimitive(obj[h])), ![h] = NULL]
  /\ own' = [own EXCEPT ![g] = own[h], ![h] = {}]
  /\ refused' = [refused EXCEPT ![g] = refused[h], ![h] = {}]
  /\ UNCHANGED <<rows, intent>>

Next ==
  \E h \in Holders :
    \/ Get(h) \/ New(h) \/ Set(h) \/ SetRefused(h)
    \/ Create(h) \/ Save(h) \/ SaveRaises(h) \/ Destroy(h) \/ RefreshObject(h)
    \/ \E g \in Holders \ {h} : Send(h, g)

Spec == Init /\ [][Next]_vars

-----------------------------------------------------------------------------
(* Properties *)

(* Every column of every row holds what was last assigned to it, by the     *)
(* holder of any object, and saved: a save never brings back what its       *)
(* object had read, whatever others wrote since. The code does bring back   *)
(* the value of a field whose new one was refused.                         *)
AssignmentsSurvive ==
  \A i \in Live : \A c \in Columns : intent[i][c] # NULL => rows[i][c] = intent[i][c]

(* What was assigned to an object stays to be written until it is, through  *)
(* calls to the conductor and saves that raise.                            *)
NothingForgotten ==
  \A h \in Holders : obj[h] # NULL => own[h] \subseteq obj[h].changed
=============================================================================
