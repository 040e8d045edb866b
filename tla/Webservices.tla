----------------------------- MODULE Webservices -----------------------------
(***************************************************************************)
(* The webservice module of a board: the conductor gives the board a DNS   *)
(* name, two public ports and a site of the proxy on the board's agent,    *)
(* and then names under that one for the webservices the board exposes.    *)
(*                                                                         *)
(* Every operation runs in a thread of the conductor and writes to the     *)
(* database, the DNS server, the files of the proxy and the board, one     *)
(* after the other; nothing is locked and nothing is undone when a step    *)
(* raises. The zone is left out: names are looked up without it. The       *)
(* threads that share the list of ports or the allow list are the subject  *)
(* of ServicePorts: here each access to them is one step.                  *)
(***************************************************************************)
EXTENDS Naturals, FiniteSets

CONSTANTS
  Boards, Agents, Workers,
  AgentOf,     \* the agent of each board
  Dns,         \* names of boards
  Names,       \* names of webservices
  LocalPorts,  \* ports of webservices on their board
  Ports,       \* public ports
  NULL,
  MaxDirty     \* bound on the boards and names that faults may affect

Hosts == (Names \cup {NULL}) \X Dns          \* <<NULL, d>> is the board's own name
Kinds == {"http", "https"}                   \* the services webservice and webservice_ssl
Sites == [http : Ports, https : Ports, redirects : SUBSET (Names \cup {NULL})]
Operations ==
  [kind : {"enable", "disable", "expose", "unexpose"}, board : Boards,
   dns : Dns, name : Names \cup {NULL}, lport : LocalPorts \cup {NULL},
   http : Ports \cup {NULL}, https : Ports \cup {NULL},
   online : BOOLEAN, ok : BOOLEAN, names : SUBSET Names, text : Sites \cup {NULL}]

ASSUME WebAssumption ==
  /\ AgentOf \in [Boards -> Agents]
  /\ NULL \notin Boards \cup Agents \cup Dns \cup Names \cup LocalPorts \cup Ports
  /\ NULL \notin Sites \cup Operations
  /\ MaxDirty \in Nat

Enabling   == {"is_enabled", "record", "lookup", "save", "allow_http", "allow_https",
               "serve_http", "serve_https", "proxy", "configure"}
Disabling  == {"stop_http", "stop_https", "drop_https", "unconfigure", "unrecord",
               "unproxy", "disallow_http", "disallow_https", "drop"}
Exposing   == {"name_record", "certify", "save_web"}
Unexposing == {"decertify", "drop_web", "name_unrecord"}
Redirecting == {"read_site", "write_site"}

VARIABLES
  enabled,  \* rows of enabled_webservices
  webs,     \* rows of webservices: <<board, name, local port>>
  exposed,  \* rows of exposed_services: <<board, kind, port>>
  record,   \* the DNS server: the agent a host name resolves to
  site,     \* the proxy files of an agent for a board's name
  cert,     \* the webservices of the last certificate list sent to a board
  free,     \* SERVICE_PORT_LIST
  allow,    \* the allow lists: <<board, port>>
  pc, op,   \* where a worker is, and what its operation has read
  dirty,    \* boards and names an operation failed on or two operations met on
  contested, \* names that were enabled by two operations at once
  orphan,   \* <<board, name, dns>> of webservices whose module was disabled
  reused    \* a port came to the list, or back to it, that was taken

tables == <<enabled, webs, exposed>>
remote == <<record, site, cert, allow>>
ghosts == <<dirty, contested, orphan, reused>>
vars   == <<tables, remote, free, pc, op, ghosts>>

(* The type of every variable. *)
TypeOK ==
  /\ enabled \subseteq [board : Boards, dns : Dns, http : Ports, https : Ports]
  /\ webs \subseteq Boards \X Names \X LocalPorts
  /\ exposed \subseteq Boards \X Kinds \X Ports
  /\ record \in [Hosts -> Agents \cup {NULL}]
  /\ site \in [Agents -> [Dns -> Sites \cup {NULL}]]
  /\ cert \in [Boards -> SUBSET Names]
  /\ free \subseteq Ports
  /\ allow \subseteq Boards \X Ports
  /\ pc \in [Workers -> {"idle"} \cup Enabling \cup Disabling \cup Exposing
                        \cup Unexposing \cup Redirecting]
  /\ op \in [Workers -> Operations \cup {NULL}]
  /\ \A w \in Workers : pc[w] = "idle" <=> op[w] = NULL
  /\ dirty \subseteq Boards \cup Dns
  /\ contested \subseteq Dns
  /\ orphan \subseteq Boards \X Names \X Dns
  /\ reused \in BOOLEAN

Init ==
  /\ enabled = {} /\ webs = {} /\ exposed = {}
  /\ record = [h \in Hosts |-> NULL]
  /\ site = [a \in Agents |-> [d \in Dns |-> NULL]]
  /\ cert = [b \in Boards |-> {}]
  /\ free = {} /\ allow = {}
  /\ pc = [w \in Workers |-> "idle"]
  /\ op = [w \in Workers |-> NULL]
  /\ dirty = {} /\ contested = {} /\ orphan = {} /\ reused = FALSE

-----------------------------------------------------------------------------
EnabledOn(b) == {e \in enabled : e.board = b}
WebsOn(b)    == {v \in webs : v[1] = b}
Served(b, k) == {e \in exposed : e[1] = b /\ e[2] = k}

At(w, label)   == pc[w] = label
Goto(w, label) == pc' = [pc EXCEPT ![w] = label]

Blank == [kind |-> "enable", board |-> NULL, dns |-> NULL, name |-> NULL,
          lport |-> NULL, http |-> NULL, https |-> NULL, online |-> TRUE,
          ok |-> TRUE, names |-> {}, text |-> NULL]

Soil(things) ==
  /\ dirty' = dirty \cup things
  /\ Cardinality(dirty') <= MaxDirty

(* Operations that run while o starts, on the same board, or enabling the   *)
(* same name and not saved yet: nothing in the code keeps them apart.       *)
SameBoard(o) == {w \in Workers : op[w] # NULL /\ op[w].board = o.board}
SameName(o) ==
  {w \in Workers : /\ op[w] # NULL
                   /\ op[w].kind = "enable" /\ o.kind = "enable" /\ op[w].dns = o.dns
                   /\ pc[w] \in {"is_enabled", "record", "lookup", "save"}}

Start(w, o, label) ==
  /\ At(w, "idle")
  /\ op' = [op EXCEPT ![w] = o]
  /\ Goto(w, label)
  /\ Soil((IF SameBoard(o) = {} THEN {}
           ELSE {o.board, o.dns} \cup {op[u].dns : u \in SameBoard(o)})
          \cup (IF SameName(o) = {} THEN {} ELSE {o.dns}))
  /\ contested' = contested \cup (IF SameName(o) = {} THEN {} ELSE {o.dns})
  /\ UNCHANGED <<tables, remote, free, orphan, reused>>

Finish(w) ==
  /\ Goto(w, "idle")
  /\ op' = [op EXCEPT ![w] = NULL]

(* A call on the database, the DNS server, the agent or the board raises,   *)
(* or the conductor dies: the operation ends there and undoes nothing.      *)
Raise(w) ==
  /\ ~At(w, "idle")
  /\ Finish(w)
  /\ IF pc[w] \in {"is_enabled", "record", "stop_http", "name_record", "decertify"}
       THEN UNCHANGED dirty
       ELSE Soil({op[w].board, op[w].dns})
  /\ UNCHANGED <<tables, remote, free, contested, orphan, reused>>

-----------------------------------------------------------------------------
(* enable_webservice *)

(* Mutant: the name is not looked up. *)
EnableUnchecked(w, b, d) ==
  Start(w, [Blank EXCEPT !.kind = "enable", !.board = b, !.dns = d], "is_enabled")

(* The board is online, and checkDnsAvailable finds no board with the name. *)
EnableWebservice(w, b, d) ==
  /\ \A e \in enabled : e.dns # d
  /\ Start(w, [Blank EXCEPT !.kind = "enable", !.board = b, !.dns = d], "is_enabled")

(* Mutant: a board may enable the module again. *)
EnableAgain(w) ==
  /\ At(w, "is_enabled")
  /\ Goto(w, "record")
  /\ UNCHANGED <<tables, remote, free, op, ghosts>>

(* isWebserviceEnabled: get_enabled_webservice_by_board_uuid finds no row;  *)
(* with a row the operation raises, as it does at any other step.           *)
IsEnabled(w) ==
  /\ At(w, "is_enabled")
  /\ EnabledOn(op[w].board) = {}
  /\ Goto(w, "record")
  /\ UNCHANGED <<tables, remote, free, op, ghosts>>

(* create_record keeps the record there is. *)
Resolving(h, a) == [record EXCEPT ![h] = IF @ = NULL THEN a ELSE @]

CreateRecord(w) ==
  /\ At(w, "record")
  /\ record' = Resolving(<<NULL, op[w].dns>>, AgentOf[op[w].board])
  /\ Goto(w, "lookup")
  /\ UNCHANGED <<tables, site, cert, free, allow, op, ghosts>>

(* The board has got a row in the meantime: its ports are used. *)
Lookup(w) ==
  /\ At(w, "lookup")
  /\ \E e \in enabled :
       /\ EnabledOn(op[w].board) = {e}
       /\ op' = [op EXCEPT ![w].http = e.http, ![w].https = e.https]
  /\ Goto(w, "allow_http")
  /\ UNCHANGED <<tables, remote, free, ghosts>>

(* SERVICE_PORT_LIST, rebuilt from exposed_services when it is empty. *)
Listed(list) == IF list = {} THEN Ports \ {e[3] : e \in exposed} ELSE list

(* Ports that were picked for an operation still running. *)
Held == UNION {{op[w].http, op[w].https} :
                 w \in {u \in Workers : op[u] # NULL /\ op[u].kind = "enable"}}

(* Whether picking a port from the list rebuilds it with one of these.      *)
Reuses(list, ports) == list = {} /\ Listed(list) \cap ports # {}

(* https_port = random_public_port(); http_port = random_public_port() *)
RandomPorts(w) ==
  /\ At(w, "lookup")
  /\ Cardinality(EnabledOn(op[w].board)) # 1
  /\ \E p \in Listed(free) : \E q \in Listed(Listed(free) \ {p}) :
       /\ op' = [op EXCEPT ![w].https = p, ![w].http = q]
       /\ free' = Listed(Listed(free) \ {p}) \ {q}
       /\ reused' = (reused \/ Reuses(free, Held)
                             \/ Reuses(Listed(free) \ {p}, Held \cup {p}))
  /\ Goto(w, "save")
  /\ UNCHANGED <<tables, remote, dirty, contested, orphan>>

(* Not a port is left: NotEnoughPortForService. *)
NotEnoughPort(w) ==
  /\ At(w, "lookup")
  /\ Cardinality(EnabledOn(op[w].board)) # 1
  /\ \A p \in Ports : Listed(Listed(free) \ {p}) = {}
  /\ free' = {}
  /\ Finish(w)
  /\ Soil({op[w].board, op[w].dns})
  /\ UNCHANGED <<tables, remote, contested, orphan, reused>>

SaveEnabled(w) ==
  /\ At(w, "save")
  /\ enabled' = enabled \cup {[board |-> op[w].board, dns |-> op[w].dns,
                               http |-> op[w].http, https |-> op[w].https]}
  /\ Goto(w, "allow_http")
  /\ UNCHANGED <<webs, exposed, remote, free, op, ghosts>>

Allow(w) ==
  /\ \/ /\ At(w, "allow_http")
        /\ allow' = allow \cup {<<op[w].board, op[w].http>>}
        /\ Goto(w, "allow_https")
     \/ /\ At(w, "allow_https")
        /\ allow' = allow \cup {<<op[w].board, op[w].https>>}
        /\ Goto(w, "serve_http")
  /\ UNCHANGED <<tables, record, site, cert, free, op, ghosts>>

(* Mutant: both services are recorded with one port. *)
ServeHttp(w) ==
  /\ \/ /\ At(w, "serve_http")
        /\ exposed' = exposed \cup {<<op[w].board, "http", op[w].http>>}
        /\ Goto(w, "serve_https")
     \/ /\ At(w, "serve_https")
        /\ exposed' = exposed \cup {<<op[w].board, "https", op[w].http>>}
        /\ Goto(w, "proxy")
  /\ UNCHANGED <<enabled, webs, remote, free, op, ghosts>>

(* ServiceEnable succeeds on the board; exposed.create(). *)
Serve(w) ==
  /\ \/ /\ At(w, "serve_http")
        /\ exposed' = exposed \cup {<<op[w].board, "http", op[w].http>>}
        /\ Goto(w, "serve_https")
     \/ /\ At(w, "serve_https")
        /\ exposed' = exposed \cup {<<op[w].board, "https", op[w].https>>}
        /\ Goto(w, "proxy")
  /\ UNCHANGED <<enabled, webs, remote, free, op, ghosts>>

(* The proxy's enable_webservice writes the three files afresh. *)
WriteProxy(w) ==
  /\ At(w, "proxy")
  /\ site' = [site EXCEPT ![AgentOf[op[w].board]][op[w].dns] =
       [http |-> op[w].http, https |-> op[w].https, redirects |-> {}]]
  /\ Goto(w, "configure")
  /\ UNCHANGED <<tables, record, cert, free, allow, op, ghosts>>

(* EnableWebService on the board, whatever it answers. *)
Configure(w) ==
  /\ At(w, "configure")
  /\ cert' = [cert EXCEPT ![op[w].board] = {}]
  /\ Goto(w, "read_site")
  /\ UNCHANGED <<tables, record, site, free, allow, op, ghosts>>

-----------------------------------------------------------------------------
(* add_redirect and remove_redirect, in a thread of the agent. *)

(* open(servers/<dns>, "r"): without the file the call raises. *)
ReadSite(w) ==
  /\ At(w, "read_site")
  /\ site[AgentOf[op[w].board]][op[w].dns] # NULL
  /\ op' = [op EXCEPT ![w].text = site[AgentOf[op[w].board]][op[w].dns]]
  /\ Goto(w, "write_site")
  /\ UNCHANGED <<tables, remote, free, ghosts>>

(* Mutant: removing a redirect removes them all. *)
RedirectsNone(o) ==
  IF o.kind = "unexpose" THEN {} ELSE o.text.redirects \cup {o.name}

(* insert_entry, remove_entry *)
Redirects(o) ==
  IF o.kind = "unexpose" THEN o.text.redirects \ {o.name}
                         ELSE o.text.redirects \cup {o.name}

WriteSite(w) ==
  /\ At(w, "write_site")
  /\ site' = [site EXCEPT ![AgentOf[op[w].board]][op[w].dns] =
                [op[w].text EXCEPT !.redirects = Redirects(op[w])]]
  /\ CASE op[w].kind = "enable"   -> Finish(w)
       [] op[w].kind = "expose"   -> Goto(w, "save_web") /\ UNCHANGED op
       [] op[w].kind = "unexpose" -> Goto(w, "drop_web") /\ UNCHANGED op
  /\ UNCHANGED <<tables, record, cert, free, allow, ghosts>>

-----------------------------------------------------------------------------
(* disable_webservice *)

(* The board has an agent and one row; `online` is what its row says now.   *)
DisableWebservice(w, b, online) ==
  \E e \in enabled :
    /\ EnabledOn(b) = {e}
    /\ Start(w, [Blank EXCEPT !.kind = "disable", !.board = b, !.dns = e.dns,
                   !.http = e.http, !.https = e.https, !.online = online], "stop_http")

(* ServiceDisable on the board if it is online; exposed.destroy(). The port *)
(* is not handed back.                                                      *)
StopHttp(w) ==
  /\ At(w, "stop_http")
  /\ Cardinality(Served(op[w].board, "http")) = 1
  /\ exposed' = exposed \ Served(op[w].board, "http")
  /\ Goto(w, "stop_https")
  /\ UNCHANGED <<enabled, webs, remote, free, op, ghosts>>

(* The same for webservice_ssl; its port goes back to the list, be it taken *)
(* again by now or not.                                                    *)
StopHttps(w) ==
  /\ At(w, "stop_https")
  /\ \E x \in exposed :
       /\ Served(op[w].board, "https") = {x}
       /\ free' = free \cup {x[3]}
       /\ reused' = (reused \/ x[3] \in Held \/ \E y \in exposed \ {x} : y[3] = x[3])
  /\ Goto(w, "drop_https")
  /\ UNCHANGED <<tables, remote, op, dirty, contested, orphan>>

DropHttps(w) ==
  /\ At(w, "drop_https")
  /\ exposed' = exposed \ Served(op[w].board, "https")
  /\ Goto(w, IF op[w].online THEN "unconfigure" ELSE "unrecord")
  /\ UNCHANGED <<enabled, webs, remote, free, op, ghosts>>

(* DisableWebService on the board. *)
Unconfigure(w) ==
  /\ At(w, "unconfigure")
  /\ cert' = [cert EXCEPT ![op[w].board] = {}]
  /\ Goto(w, "unrecord")
  /\ UNCHANGED <<tables, record, site, free, allow, op, ghosts>>

(* Mutant: the record of an offline board stays. *)
DeleteRecordOnline(w) ==
  /\ At(w, "unrecord")
  /\ record' = IF op[w].online THEN [record EXCEPT ![<<NULL, op[w].dns>>] = NULL]
                               ELSE record
  /\ Goto(w, IF op[w].online THEN "unproxy" ELSE "disallow_http")
  /\ UNCHANGED <<tables, site, cert, free, allow, op, ghosts>>

(* delete_record: without a record it reads an unbound variable and raises. *)
DeleteRecord(w) ==
  /\ At(w, "unrecord")
  /\ Cardinality(EnabledOn(op[w].board)) = 1
  /\ record[<<NULL, op[w].dns>>] # NULL
  /\ record' = [record EXCEPT ![<<NULL, op[w].dns>>] = NULL]
  /\ Goto(w, IF op[w].online THEN "unproxy" ELSE "disallow_http")
  /\ UNCHANGED <<tables, site, cert, free, allow, op, ghosts>>

(* The proxy's disable_webservice removes the files; the files of a board   *)
(* that was offline stay.                                                   *)
RemoveProxy(w) ==
  /\ At(w, "unproxy")
  /\ site' = [site EXCEPT ![AgentOf[op[w].board]][op[w].dns] = NULL]
  /\ Goto(w, "disallow_http")
  /\ UNCHANGED <<tables, record, cert, free, allow, op, ghosts>>

Disallow(w) ==
  /\ \/ /\ At(w, "disallow_http")
        /\ allow' = allow \ {<<op[w].board, op[w].http>>}
        /\ Goto(w, "disallow_https")
     \/ /\ At(w, "disallow_https")
        /\ allow' = allow \ {<<op[w].board, op[w].https>>}
        /\ Goto(w, "drop")
  /\ UNCHANGED <<tables, record, site, cert, free, op, ghosts>>

(* webservice.destroy(); the rows of its webservices stay. *)
DropEnabled(w) ==
  /\ At(w, "drop")
  /\ EnabledOn(op[w].board) # {}
  /\ enabled' = enabled \ EnabledOn(op[w].board)
  /\ orphan' = orphan \cup {<<v[1], v[2], op[w].dns>> : v \in WebsOn(op[w].board)}
  /\ Finish(w)
  /\ UNCHANGED <<webs, exposed, remote, free, dirty, contested, reused>>

-----------------------------------------------------------------------------
(* create_webservice *)

(* The board is online, has no webservice of the name (or it is returned    *)
(* unchanged) and one row of the module. The names are read here.           *)
CreateWebservice(w, b, n, lport) ==
  \E e \in enabled :
    /\ EnabledOn(b) = {e}
    /\ \A v \in WebsOn(b) : v[2] # n
    /\ Start(w, [Blank EXCEPT !.kind = "expose", !.board = b, !.dns = e.dns, !.name = n,
                   !.lport = lport, !.names = {v[2] : v \in WebsOn(b)}], "name_record")

(* create_record_dns_webservice *)
CreateName(w) ==
  /\ At(w, "name_record")
  /\ record' = Resolving(<<op[w].name, op[w].dns>>, AgentOf[op[w].board])
  /\ Goto(w, "certify")
  /\ UNCHANGED <<tables, site, cert, free, allow, op, ghosts>>

(* ExposeWebservice on the board, with all the names. The answer is looked  *)
(* at only at the end.                                                      *)
Certify(w) ==
  /\ At(w, "certify")
  /\ \/ /\ cert' = [cert EXCEPT ![op[w].board] = op[w].names \cup {op[w].name}]
        /\ UNCHANGED op
     \/ /\ op' = [op EXCEPT ![w].ok = FALSE]
        /\ UNCHANGED cert
  /\ Goto(w, "read_site")
  /\ UNCHANGED <<tables, record, site, free, allow, ghosts>>

(* newwbs.create(), unless the local port is used by another webservice of  *)
(* the board; manage_result then raises if the board answered an error.     *)
SaveWebservice(w) ==
  /\ At(w, "save_web")
  /\ \A v \in WebsOn(op[w].board) : v[3] # op[w].lport
  /\ webs' = webs \cup {<<op[w].board, op[w].name, op[w].lport>>}
  /\ Finish(w)
  /\ IF op[w].ok THEN UNCHANGED dirty ELSE Soil({op[w].board, op[w].dns})
  /\ UNCHANGED <<enabled, exposed, remote, free, contested, orphan, reused>>

-----------------------------------------------------------------------------
(* destroy_webservice *)

DestroyWebservice(w, v, online) ==
  \E e \in enabled :
    /\ EnabledOn(v[1]) = {e}
    /\ Start(w, [Blank EXCEPT !.kind = "unexpose", !.board = v[1], !.dns = e.dns,
                   !.name = v[2], !.lport = v[3], !.online = online],
             IF online THEN "decertify" ELSE "drop_web")

(* UnexposeWebservice on the board, with the names left, whatever it answers. *)
Decertify(w) ==
  /\ At(w, "decertify")
  /\ \/ cert' = [cert EXCEPT ![op[w].board] =
                   {v[2] : v \in WebsOn(op[w].board)} \ {op[w].name}]
     \/ UNCHANGED cert
  /\ Goto(w, "read_site")
  /\ UNCHANGED <<tables, record, site, free, allow, op, ghosts>>

(* wbsrv.destroy() *)
DropWebservice(w) ==
  /\ At(w, "drop_web")
  /\ <<op[w].board, op[w].name, op[w].lport>> \in webs
  /\ webs' = webs \ {<<op[w].board, op[w].name, op[w].lport>>}
  /\ Goto(w, "name_unrecord")
  /\ UNCHANGED <<enabled, exposed, remote, free, op, ghosts>>

(* Mutant: the record of an offline board stays. *)
DeleteNameOnline(w) ==
  /\ At(w, "name_unrecord")
  /\ record' = IF op[w].online THEN [record EXCEPT ![<<op[w].name, op[w].dns>>] = NULL]
                               ELSE record
  /\ Finish(w)
  /\ UNCHANGED <<tables, site, cert, free, allow, ghosts>>

(* delete_record raises here too if there is no record. *)
DeleteName(w) ==
  /\ At(w, "name_unrecord")
  /\ record[<<op[w].name, op[w].dns>>] # NULL
  /\ record' = [record EXCEPT ![<<op[w].name, op[w].dns>>] = NULL]
  /\ Finish(w)
  /\ UNCHANGED <<tables, site, cert, free, allow, ghosts>>

-----------------------------------------------------------------------------
Step(w) ==
  \/ IsEnabled(w) \/ CreateRecord(w) \/ Lookup(w) \/ RandomPorts(w) \/ NotEnoughPort(w)
  \/ SaveEnabled(w) \/ Allow(w) \/ Serve(w) \/ WriteProxy(w) \/ Configure(w)
  \/ ReadSite(w) \/ WriteSite(w)
  \/ StopHttp(w) \/ StopHttps(w) \/ DropHttps(w) \/ Unconfigure(w) \/ DeleteRecord(w)
  \/ RemoveProxy(w) \/ Disallow(w) \/ DropEnabled(w)
  \/ CreateName(w) \/ Certify(w) \/ SaveWebservice(w)
  \/ Decertify(w) \/ DropWebservice(w) \/ DeleteName(w)
  \/ Raise(w)

(* The controllers of the API. A webservice is looked up by its uuid and   *)
(* may go meanwhile; whether the board is online is read by the conductor.  *)
PutEnable(w)  == \E b \in Boards, d \in Dns : EnableWebservice(w, b, d)
PutDisable(w) == \E b \in Boards, online \in BOOLEAN : DisableWebservice(w, b, online)
PutWebservice(w) ==
  \E b \in Boards, n \in Names, p \in LocalPorts : CreateWebservice(w, b, n, p)
DeleteWebservice(w) == \E v \in webs, online \in BOOLEAN : DestroyWebservice(w, v, online)

Call(w) == PutEnable(w) \/ PutDisable(w) \/ PutWebservice(w) \/ DeleteWebservice(w)

Next == \E w \in Workers : Step(w) \/ Call(w)

Spec == Init /\ [][Next]_vars

-----------------------------------------------------------------------------
(* Properties. What a fault or two operations at once have touched is in    *)
(* `dirty`: the code repairs nothing there, and a property speaks of the    *)
(* other boards and names.                                                  *)

Running(b) == \E w \in Workers : op[w] # NULL /\ op[w].board = b
Working(d) == \E w \in Workers : op[w] # NULL /\ op[w].dns = d
                                 /\ op[w].kind \in {"enable", "disable"}
Settled(b, d) == ~Running(b) /\ {b, d} \cap dirty = {}

(* checkDnsAvailable looks a name up long before the row that assigns it is *)
(* saved. Two rows have one DNS name only if an operation began to enable it while *)
(* another one had looked it up and not saved its row. No failure, and no   *)
(* other order of operations that enable and disable, lets a name have two. *)
UniqueDns ==
  \A e, f \in enabled : e # f /\ e.dns = f.dns => e.dns \in contested

(* A board whose module is enabled can be reached under its name: the name  *)
(* resolves to its agent, whose proxy forwards to the two ports the board's *)
(* row and its exposed services have, and the allow list holds.             *)
EnabledIsServed ==
  \A e \in enabled : Settled(e.board, e.dns) =>
    LET s == site[AgentOf[e.board]][e.dns] IN
    /\ record[<<NULL, e.dns>>] = AgentOf[e.board]
    /\ s # NULL /\ s.http = e.http /\ s.https = e.https
    /\ Served(e.board, "http") = {<<e.board, "http", e.http>>}
    /\ Served(e.board, "https") = {<<e.board, "https", e.https>>}
    /\ {<<e.board, e.http>>, <<e.board, e.https>>} \subseteq allow

(* A name resolves only while a board has it or is getting or losing it.    *)
RecordIsEnabled ==
  \A d \in Dns \ dirty :
    record[<<NULL, d>>] # NULL => Working(d) \/ \E e \in enabled : e.dns = d

(* The site of a name is not written yet, or leads to a service that an     *)
(* operation that disables the module has removed already.                  *)
Changing(d) ==
  \E w \in Workers :
    /\ op[w] # NULL /\ op[w].dns = d
    /\ pc[w] \in {"lookup", "save", "allow_http", "allow_https", "serve_http",
                  "serve_https", "proxy",
                  "stop_https", "drop_https", "unconfigure", "unrecord"}

(* Whoever follows a name reaches the board that has it: the site it        *)
(* resolves to never forwards to a port that the same agent serves for      *)
(* another board, unless that board is just being disabled. Its ports may   *)
(* have been those of a board disabled before. Excluded: a name being       *)
(* enabled until its site is written (the site of the board that had it     *)
(* before may be there), and one being disabled from the moment its first   *)
(* service is gone until its record is (its ports are handed back before).  *)
NoMisroute ==
  \A d \in Dns \ dirty, a \in Agents :
    record[<<NULL, d>>] = a /\ site[a][d] # NULL /\ ~Changing(d) /\ ~reused =>
      \A x \in exposed :
        x[3] \in {site[a][d].http, site[a][d].https} /\ AgentOf[x[1]] = a =>
          \/ x[1] \in dirty
          \/ \E w \in Workers : At(w, "drop_https") /\ op[w].board = x[1]
          \/ \E e \in enabled : e.board = x[1] /\ e.dns = d

(* An exposed webservice can be reached under its name: the name resolves   *)
(* to the board's agent, whose proxy redirects it to https, and the board's *)
(* certificate has it. Excluded: a webservice its board has disabled the    *)
(* module under, and one whose full name such a webservice had before: the  *)
(* record it left is kept, whatever agent it points to.                     *)
WebserviceIsServed ==
  \A v \in webs, e \in enabled :
    (v[1] = e.board /\ Settled(e.board, e.dns)
     /\ \A o \in orphan : o[2] = v[2] => o[1] # v[1] /\ o[3] # e.dns) =>
       LET s == site[AgentOf[e.board]][e.dns] IN
       /\ record[<<v[2], e.dns>>] = AgentOf[e.board]
       /\ s # NULL /\ v[2] \in s.redirects
       /\ v[2] \in cert[e.board]

(* The name of a webservice resolves only while the webservice exists, is   *)
(* being exposed or removed, or the module was disabled under it.           *)
NameHasWebservice ==
  \A n \in Names, d \in Dns \ dirty :
    record[<<n, d>>] # NULL =>
      \/ \E e \in enabled, v \in webs : v[1] = e.board /\ v[2] = n /\ e.dns = d
      \/ \E w \in Workers : op[w] # NULL /\ op[w].dns = d /\ op[w].name = n
      \/ \E b \in Boards : <<b, n, d>> \in orphan
=============================================================================
