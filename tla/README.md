# A TLA+ model of Iotronic

Iotronic (Stack4Things) manages fleets of boards over WAMP. This directory holds
TLA+ modules translated from its source, the TLC configurations that check them
and proofs checked by TLAPS. Paths below are relative to the repository.

## 1. The system

| part | source | state | operations |
|---|---|---|---|
| Board connectivity | `iotronic/wamp/functions.py`, `iotronic/wamp/agent.py`, `registration` in `iotronic/conductor/endpoints.py` | tables `boards` (status, agent) and `sessions` (valid); the agent's WAMP session | `connection`, `registration`, `board_on_leave`, `update_sessions`, `onJoin`, `onDisconnect` |
| Calls on boards | `execute_on_board` in `endpoints.py`, `notify_result` in `functions.py` | tables `requests`, `results` | `new_req`, `new_res`, a call, an answer, a notification, the counter of a main request |
| Exposed services | `random_public_port`, `action_service` in `endpoints.py`; the allow list in `agent.py` | `SERVICE_PORT_LIST` (a global of the conductor), table `exposed_services`, the allow list file | ServiceEnable, ServiceDisable, ServiceRestore |
| Webservices | `create_`, `destroy_`, `enable_`, `disable_`, `renew_webservice` in `endpoints.py`, `common/designate.py`, `wamp/proxies/nginx.py` | tables `webservices`, `enabled_webservices`; DNS records; proxy files | as named |
| Boards, plugins, fleets, services | the other operations of `endpoints.py` and the controllers `api/controllers/v1/` | tables `boards`, `locations`, `plugins`, `injection_plugins`, `fleets`, `services`; a board's memory | create, update, destroy, inject, remove, act |
| Virtual interfaces | `create_port_on_board`, `remove_VIF_from_board`, `common/neutron.py` | the global `Port` list, table `ports_on_boards`, Neutron ports, tap interfaces | create, remove |
| Processes | `conductor/manager.py`, `WampAgent` in `wamp/agent.py` | tables `conductors`, `wampagents` | register, unregister, wait for the registration agent |
| Lists of the REST API | `get_all` and `detail` of the controllers, `_paginate_query` and the filters in `db/sqlalchemy/api.py`, `collection.py` | none; a client keeps a link | first page, next page |
| Object layer | `objects/base.py`, `objects/*.py` | the changed fields of an object | get, list, create, save, destroy, refresh, serialize |
| Database layer | `db/sqlalchemy/api.py`, `models.py` | rows | one transaction for each function |
| Schema | `models.py`, `alembic/versions/`, `migration.py`, `cmd/dbsync.py` | the tables themselves, `alembic_version` | upgrade, create_schema |
| Hash ring, versions | `common/hash_ring.py`, `versionCompare` | none | pure algorithms |
| Policies, authentication, Oslo code | `common/policy.py`, `common/keystone.py`, `openstack/common/` | none of their own | |

How they interact. A board opens a WAMP session on the router of an agent. The
agent is a process with an asyncio loop, which runs the WAMP handlers one at a
time, and an Oslo RPC server with a pool of threads. The conductor is another
RPC server with a pool of threads. A controller of the API reads rows, checks,
and sends an object or its uuid to the conductor; the conductor calls a board by
asking the agent of the board to make a WAMP call; the registration agent hands
registrations to the conductor. All of them share one database. No operation
locks anything across two accesses to it: this is where the hard behaviours come
from.

- *Interleaving*: connection and registration of one board run in different
  processes; `pending_requests` is decremented by a conductor thread and by the
  agent; threads share the lists of ports and the allow list file; two calls of
  the API look for a row and both find none.
- *Staleness*: the router's session list is used after an `await`; a controller
  sends back a row it read before; the list of free ports is rebuilt from rows
  read earlier; the marker of a page may be gone when it is used.
- *Failure*: a process may be killed between two writes; an RPC may time out
  while its handler goes on; a board may answer with an error, later, or never;
  leave events are lost while an agent has no transport; MySQL commits every
  change of a revision on its own.
- *Ordering*: leave events of an old session after a new connection; a port
  handed back before its row and its allow list entry are removed; an old process
  that unregisters the host its successor has just registered.

What makes each part correct: a board has one valid session, and is ONLINE if it
is connected; a main request is completed once, with the last of its calls; a
port or a number has one user; what the tables say of boards is what the boards,
the proxy, the DNS server, Neutron and the allow lists hold; a save writes what
was assigned and no more; a walk over the pages of a list sees each row once; an
upgraded database is the one the models describe.

## 2. Modules

Each handler is split where it accesses the database, a file or a list shared
with other threads; what lies between two such points is one action. An object
saves the columns that were set since it was read, so a save is an assignment
to those variables only (`Objects` says so, `Records` checks it).

| module | models |
|---|---|
| `BoardSessions` | the `sessions` and `boards` tables and every handler that writes them |
| `MainRequests` | abstract: what the requests table promises of an operation of several calls |
| `Requests` | the `requests` and `results` tables, `execute_on_board`, `notify_result`; implements `MainRequests` |
| `ServicePorts` | the list of public ports, `exposed_services` and the allow list |
| `Webservices` | the webservice module of a board: rows, DNS records, proxy files, ports, certificate |
| `Objects` | the operators of `objects/base.py` |
| `Inventory` | boards, locations, fleets, plugins, services and injections, from the controller to the board; EXTENDS `Objects` |
| `Records` | every class of objects over its table and the functions of the database layer; EXTENDS `Objects` |
| `Registry` | how conductors and agents come and go |
| `VifPorts` | virtual interfaces in the threads of those conductors; EXTENDS `Registry` |
| `Listing` | the lists of the API, page by page |
| `Schema` | the tables, the revisions and the commands that build them |
| `..._proofs` | the inductive invariant of a module and its theorems (section 4); `Database_proofs` is about `Listing` and `Schema`, `VifPorts_proofs` about `VifPorts` and `Registry`; `Webservices_inv` and `Inventory_inv` hold the invariants that the modules of proofs prove |
| `MC...` | instances for TLC: constants, symmetry, and in `MCWebservices` which operations a behaviour is made of |

A variable called `story`, `dirty`, `fate`, `reused`, ... is a ghost: it names
what has happened that the code does not survive, so that a property can say
"unless". The properties are about everything else; section 3 lists the
exclusions.

### BoardSessions

`status`, `agent`, `valid` are the database; `config`, `mine` the boards;
`owner`, `router`, `live`, `calls`, `leaves` the routers; `link`, `snap` the
connection of an agent to its router; `pc`, `cur`, `old`, `todo`, `seen` the
handlers' local variables. A thread is an agent (its loop) or a worker (a
conductor thread that runs `registration`).

| code | actions |
|---|---|
| `onJoin` | `OnJoin` (subscribe, register), `SessionList` (the router answers), `UpdateSessions` (the coroutine resumes) |
| `onDisconnect` | `OnDisconnect`: queued calls and events are lost |
| `update_sessions` | `UpdateSessions` (read the table, compute `old_connected`), `VisitOld`/`SkipOld`, `Invalidate`, `SetOffline` |
| `board_on_leave` | `BoardOnLeave`/`BoardOnLeaveIgnored`, `Invalidate`, `SetOffline` |
| `connection` | `Connection` (read the old session), `InvalidateOld`, `CreateSession`, `SetOnline` |
| `registration` | `Registration`, `InvalidateOld`, `CreateSession`, `Configure`; the agent waits (`await`) or gives up (`RpcTimeout`) |
| a killed process | `Crash` |

The board and the router are external: a board joins the agent its configuration
names, calls once per session, and may lose its configuration; a router drops
sessions and may keep listing one whose board has moved on.

`get_session_by_board_uuid` reads with `query.one()`, which raises on several
rows; both callers swallow it. Hence `ReadOne`: the old session is invalidated
only if there is exactly one.

Nothing keeps the calls of a board apart: when its session is lost, when the RPC
of its registration has timed out (`RpcTimeout`), or after a reset, it opens
another session and calls again while the first handler may still run, in the
same process or another. Messages that an agent receives while `onJoin` awaits
`wamp.session.list` are handled before the coroutine resumes; `connection` is a
plain function, so it then runs to its end first.

Three ghosts record what happened. `torn` holds the boards whose handler was
killed between two writes and for which none has completed since. `late` holds the
sessions whose connection was handled between the router's list and its use. `met`
holds, by way of meeting, the boards for which two handlers ran at once:
`reading`, a call was taken while another had still to create its session;
`writing`, while another had only the status left to write; `assigning`, two
registrations; `leaving`, a call and the invalidation of a session. Each property
names the meetings that break it, and holds through the others.

Left out: `destroy_board` removing rows, a board that calls twice on one session
(the unique constraint on `sessions` would raise), the fields `info` carries, and
which agent `get_best_agent` picks (any).

### Requests and MainRequests

An operation is a conductor thread: `enable` and `disable` a webservice (three
calls under a main request), `renew` (one), `expose` (one call without a main
request, as every other call on a board). `Begin`, `BeginOffline` and `Refuse`
are the three ways it starts; `NewReq`, `NewRes`, `Call`, `Answered` or
`CallRaises`, `SaveRes`, `SaveReq`, `ReadMain`, `SaveMain` are
`execute_on_board`; `NextCall` is the operation between two calls.
`NotifyResult` followed by `SaveReq`, `ReadMain`, `SaveMain` in the thread
`Agent` is `notify_result`. The board answers a call once and notifies a call
answered RUNNING once. WARNING behaves as SUCCESS here. `GiveUp` stands for the
steps that may raise between two calls (DNS, ports, an offline board).

`raced` and `torn` hold the operations that lost a decrement to a concurrent one
or to a crash; `dropped` the calls whose answer nobody waits for any more.

`MainRequests` says the same without counters, threads, results or
notifications: a main request is opened once, its calls are made in order, each
is completed once, and the main request is completed after the last of them, or
at once by a refusal. `ImplementsMain` instantiates it with `main` and `call`
read from the rows of `reqs`, and is checked as a property: a step of the code is
a step of it or a stutter, also when decrements are lost.

### ServicePorts

`free` is `SERVICE_PORT_LIST` with multiplicities, `exposed` the rows, `allow`
the allow list. `CheckList`, `ReadUsed`, `Refill`, `Choose`, `NotEnoughPort`, `Take` are
`random_public_port`; `AddRead`/`AddWrite` and `RemoveRead`/`RemoveWrite` the
two functions of the agent that read and rewrite the file; `ServiceEnable` ...
`Record` and `ServiceDisable` ... `Destroy` the branches of `action_service`.
`EnableFails`, `DisableFails` and `AgentUnreachable` are the exceptions of its
remote calls, `Restart` a restart of the conductor.

Assumed: one conductor process; the users of the API run one action at a time on
a service of a board (`Unattended`). A board has any number of services. The ghosts
are sets, so that what goes wrong with one port or entry excuses nothing else.
`reused` holds the ports that were in use when the list was rebuilt with them, or
whose disable a restart caught between the list and the row: the code then does
share them. `clobbered` holds the entries that two threads lost or brought back
when they met in the allow list file. `retaken` holds the entries whose board took
the port while it still used it, which it can since `Append` comes before
`Destroy` and `RemoveWrite`. A board that takes a port it does not use begins anew
(`Retake`). `leftover` holds the entries of operations that failed.

### Webservices

`enabled`, `webs`, `exposed` are the tables; `record` the DNS server (which agent
a host name resolves to); `site` the proxy files of each agent; `allow` the
allow lists; `cert` the names of the last certificate list a board was sent;
`free` the list of ports. An operation keeps what it has read in `op`.

| code | actions |
|---|---|
| `enable_webservice` | `EnableWebservice` (`checkDnsAvailable`), `IsEnabled`, `CreateRecord`, `Lookup` or `RandomPorts` or `NotEnoughPort`, `SaveEnabled`, `Allow` (twice), `Serve` (twice), `WriteProxy`, `Configure`, `ReadSite`, `WriteSite` |
| `disable_webservice` | `DisableWebservice`, `StopHttp`, `StopHttps`, `DropHttps`, `Unconfigure`, `DeleteRecord`, `RemoveProxy`, `Disallow` (twice), `DropEnabled` |
| `create_webservice` | `CreateWebservice`, `CreateName`, `Certify`, `ReadSite`, `WriteSite`, `SaveWebservice` |
| `destroy_webservice` | `DestroyWebservice`, `Decertify`, `ReadSite`, `WriteSite`, `DropWebservice`, `DeleteName` |
| an exception at any step, a conductor that dies | `Raise` |

Each action is one access to a table, to the DNS server, to the agent or to the
board. `delete_record` raises if the record is gone (it reads a variable that was
never bound), `add_redirect` if the file is: the actions have these guards, and
`Raise` is all that is left then. Two ports picked in one operation, and each
access to the allow list, are one step here; `ServicePorts` splits them.

Nothing is undone when a step raises, and nothing keeps two operations on one
board apart, so the properties speak of what neither has touched. `dirty` holds
the boards and names an operation failed on, or on which two operations met;
`MaxDirty` bounds it. `contested` holds the names that two operations enabled at
once: one started while the other had looked the name up and not saved its row.
`orphan` holds the webservices whose board disabled the
module. `reused` says that a port came to the list while it was taken: the list
was rebuilt with it, or `disable_webservice` handed it back a second time.

Left out: the zone (names are looked up without it), the reload of the proxy
after each change of its files, `destroy_board`, and `action_service` on the two
services of the module. `renew_webservice` changes nothing but its requests.
The board is external: it takes over a certificate list unless it answers an
error.


### Objects, Inventory and Records

`Objects` has the operators of an object: `SetField` and `RefuseField` (the
setter, which marks the field before its type can refuse the value), `Update`,
`FromDbObject`, `ToPrimitive`, `FromPrimitive`, `Changes`, `Refresh`, `Saved`, on
two of its own: `Over` (the fields of one record, then those of another) and
`With` (one column of a row changed).

`Inventory`: `rows`, `located`, `injections`, `exposed` are the tables,
`installed` the plugins in the memory of each board, `allowed` the allow list,
`calls` the call each client waits for.

| code | actions |
|---|---|
| the controllers | `PostBoard`, `PatchBoard`, ... `PostServiceAction`: read rows, check, send a message |
| `create_board` | `CheckName`, `InsertBoard` (raises if the code is another board's: codes are not modelled, so any insert may), `CreateLocation` |
| `update_board` | `UpdateBoard` |
| `destroy_board` | `ReadBoard`, a call on the board, `ListExposed`, `RemoveAllowed` (each), `DestroyBoard` and what cascades |
| plugins, services, fleets | one transaction each; a foreign key that restricts makes it raise |
| `inject_plugin` | `InjectPlugin`, `ExecuteOnBoard`, `LookupInjection`, `SaveInjection` or `CreateInjection` |
| `remove_plugin`, `action_plugin` | `RemovePlugin` or `ActionPlugin`, `ExecuteOnBoard`, `DestroyInjection` |
| ServiceEnable beside a destroyed board | `EnableService`, `AddAllowed`, `CreateExposed`, `AgentUnreachable` |
| the board | `BoardDoes`, `BoardRefuses`, `CallTimesOut`; a call that nobody waits for any more runs late or never (`OrphanRuns`, `OrphanIsLost`) |
| a killed conductor | `ConductorCrashes` |

`Records` picks one class, `class`: its table with the constraints of the model,
the lookups, writes and getters that exist for it, and how its methods find
their row. A holder (a controller or a conductor thread) reads an object or makes
one, assigns, creates, saves, destroys, refreshes it or sends it to another
holder, while the other does the same. `own` is what a holder assigned and has
not saved, `intent` what was last assigned and saved in each column, `refused` the
columns whose new value was refused. The classes are not alike: some methods call
a function of the database layer that does not exist (`destroy_request`,
`destroy_result`, `destroy_session`, `update_enabled_webservice`, `update_port`,
`get_location_by_id`, the getters by id of exposed services and injections);
those methods only raise.

### Registry and VifPorts

`Registry`: `conductors` and `wampagents` are the tables, `proc` where each
process of a host is, `found` the registration agent a conductor has read, `conf`
the configuration file of an agent. A process starts, registers (or updates the
row of its predecessor), and a conductor then polls `get_registration_wampagent`
until there is one; an agent saves its `ragent` flag. `Interrupt` and `Unregister`
are the signal handler, `Kill` is a killed process, `Reconfigure` an operator
that moves the registration role. The heartbeats are no action: nothing calls them.

`VifPorts` runs the calls in a conductor process of `Registry`, which may stop, be
killed, or have a successor beside it: `list` is its `Port` list, which a new
process starts empty.

| code | actions |
|---|---|
| `create_port_on_board` | `PutPort`, `ReadBoard`, `AddPort` (Neutron), `Draw`, `Test` and `Compare` (the number, each access to the list a step), `InsertNumber`, `CreateVif`, `CreateTap`, `CreateRow`, `ConfigureVif` |
| `remove_VIF_from_board` | `DeletePort`, `ReadPort`, `RemoveVif`, `ForgetNumber`, `DeleteNeutronPort`, `DestroyRow` |
| an exception of any of these | `Fails`: the handler ends, nothing is undone |
| `destroy_board`, a board that comes and goes | `DestroyBoard`, `Toggle` |

### Listing

One client walks one of the thirteen lists: `GetAll` is the first request,
`FindMarker`, `QueryPage`, `ConvertPage` a page, `ConvertRaises` an error on the
way. The filters of the controllers (`...Filters`) and of the database layer
(`Add...Filters`) are separate operators, so that a parameter one gives and the
other ignores is seen: `with_public`, `fleet` and `project` are not treated alike.
`GetNext` is `collection.get_next`, which drops the parameters of the first
request. `ValidateLimit` refuses a limit of 0 (`LimitRefused`) but for the lists that
do not call it, the boards of a fleet and the results of a request. A row is
created, deleted, renamed or otherwise updated between any two accesses, or the
agent of the boards goes.

### Schema

`db` is the tables (columns with type and nullability, unique constraints,
foreign keys with the number MySQL gives them), `rows` the table
`alembic_version`, `job` the command of each operator. `Models` and `Revisions`
are both translated, column by column: the first from `models.py`, the second
from the eight revisions. `ApplyChange` applies one operation of a revision, which
raises if it cannot (`Raise`); `UpdateVersion` is alembic's; `ListMissing`,
`CreateModel`, `Stamp` are `create_schema`, whose `todo` is the set of the tables
that were missing. `CutOff` kills a command anywhere.

## 3. Runs

| run | instance | shows |
|---|---|---|
| `sessions_mix` | two instances side by side, one board, registration agent and main agent, one loss | one worker and three sessions; two workers and two sessions, so that two registrations run at once: `SessionsAreSingle`, `AgentIsKept`, `OnlineHasSession`, `DeadSessionCovered`, `ConnectedIsOnline`, `OldConnectedIsLate` |
| `sessions_single` | two boards, one agent for both roles, one worker, two sessions, one loss, fairness | a board that is gone for good ends up not ONLINE (`GoneBoardGoesOffline`); types |
| `sessions_stale` | one board, one agent, one worker, two sessions | **violated**: `OldConnectedIsGone` |
| `requests_mix` | one `enable` or one `disable` with its three calls, or a `renew` beside an `expose`; one crash, fairness | `ImplementsMain` (the refinement), `CounterNeverLow`, `PendingIsOwed`, and `MainCompletes` |
| `ports_mix` | two instances side by side, two ports, two threads, one restart | two boards with one service each; one board with two services: `NoSharedPort`, `FreeIsUnused`, `ExposedKeepsEntry`, `AllowedIsExposed` |
| `ports_allow` | one board, two services, two threads | **violated**: `ExposedIsAllowed` |
| `web_mix` | four instances side by side, two boards of one agent, two names, four ports | two threads that enable and disable in any order; two that enable and disable one name on both boards, also at once; one thread any step of which may raise; one thread with every operation and two webservices on one board: `UniqueDns`, `NoMisroute`, `EnabledIsServed`, `RecordIsEnabled`, `WebserviceIsServed`, `NameHasWebservice` |
| `inventory` | eight mixes of kinds of calls, two clients, four calls, three boards, two of the rest, one toggle, one crash | `UniqueName`, `OneInjection`, `InjectionsAgree`, `BoardIsWhole`, `PatchKeepsOthers` |
| `vif_all` | two agents, two processes a host, two numbers, three Neutron ports; five events, or three calls and a toggle, or two calls and an event; fairness | `TableIsTrue`, `WaitEnds`, `NoSharedNumber`, `RowIsListed`, `PortIsOwned`, `RowIsPlugged` |
| `listing` | every list, two projects, two keys, three ids, limits of 0, of 1 and none, pages of one and two, two orders, one change | `SeenOnce`, `OnlyWanted` |
| `schema` | two operators, every target revision, one command cut off | `HeadIsModels`, `VersionIsBehind`, `UuidIsUnique` |
| `records` | every class, two holders, two rows, two uuids, two values, seven calls | `AssignmentsSurvive`, `NothingForgotten` |

Bounds. Sessions: three let a board register, connect and reconnect, with an old
session still listed, and its calls on the two agents overlap; with two
workers a registration that timed out runs beside its retry, which takes two
sessions; one loss is enough for each window
between two writes, since every ghost variable records one board, operation or port on its own. Two ports and
two threads give every pair of steps of `random_public_port` on the same port
and the empty list. The counter of a main request is at most three in the code. In
`requests_mix` operations of three calls run alone, beside the agent's loop and the
board; two operations only meet in that loop, which `renew` beside `expose` shows.
In `web_mix` four ports are two boards' worth; with fewer, ports run out and a
board soon gets those that were another's. Two threads are checked without
failures, once on two names with no meeting of operations and once on one name
where it may be enabled twice at once (a bound of one in `dirty`: the name), and
failures with one thread (`MaxDirty = 2` is one failure, with a clean
board and name left to be disturbed), and the webservices on one board: the
product of the three is out of reach. In `inventory` a mix is the kinds of calls
that share rows; four calls by two clients let a second pair meet what the first
left. In `vif_all` five events are a start of both agents and a conductor, an end
and a restart; three calls create, create again and remove. `listing`: three rows
and pages of one and two put equal keys on the boundary of two pages; rows change
once, since a property about a row only speaks of rows that did not change.
`schema`: a database goes through eight revisions whatever the bounds are;
`records`: two reads, two assignments, a message and two saves are seven calls.
Sessions, boards, names, ports, clients, operators and threads are symmetric;
symmetry is not used in a run with a liveness property.
Deadlock is not checked: session ids run out, operations end, and a system
nobody calls rightly does nothing.

Fairness. `BoardSessions`: an agent and a thread that run a handler go on
(`AgentStep`, `CallStep`, `WorkerStep`), `onDisconnect` restarts the component, the
router answers `wamp.session.list`, and its pings (`autoPingInterval`,
`autoPingTimeout`) find out a peer that is gone. Boards and losses are not fair.
`Requests`: threads and the agent's loop run, and a call that is not answered
raises after the RPC timeout; the board is not fair. `Registry`: a process that
was started goes on, and the `sleep` of the polling loop returns; nothing starts a
process.

### What the code does wrong

`sessions_stale`. `onJoin` awaits the router's session list and then calls
`update_sessions`, which reads the table. A connection handled in between is in
the table and not in the list. Its session is invalidated and its board set
OFFLINE while it is connected, and stays so until it reconnects; the code calls
these sessions "board not connected anymore".

`ports_allow`. ServiceDisable hands its port back before it removes the port's
allow list entry. ServiceEnable of another service of the same board may be
given the port, find the entry there and add nothing; the pending removal then
takes it away. `ExposedKeepsEntry` says that nothing else costs a service its
entry, but for the file that two threads rewrite.

### What the properties exclude

The code does the following, and no document of the repository says otherwise;
a ghost variable or a named condition keeps it out of the properties.

- *Sessions*: handlers of one board that run at once (`met`). The agent waits for
  the RPC of a registration up to its timeout; the conductor's thread does not know
  and goes on. The board registers again, a second thread takes the call, both have
  read the same old session (or none), and each creates one:
  `get_session_by_board_uuid` raises from then on, no handler invalidates anything
  for this board, and every call on it fails. With two workers, two sessions and
  one agent this takes no loss at all. Two calls may also leave the board without a
  valid session while it is ONLINE, two registrations may give it
  two agents one after the other, and a call beside the invalidation of an older
  session, on another agent or of an older registration, may leave a connected
  board OFFLINE. Each property lists its own: `SessionsAreSingle` only `reading`,
  `AgentIsKept` and `OldConnectedIsLate` only `assigning`, and `ConnectedIsOnline`
  and `GoneBoardGoesOffline` all of them.
  A board whose handler was killed halfway (`torn`) waits for its next one.
- *Requests*: a decrement lost between two unlocked read-and-save pairs, or a
  crash between a request and its main request, leaves the main request PENDING;
  so does disabling the webservices of a board that is offline.
- *Ports*: the list can be rebuilt with a port another thread holds; two
  conductor processes would have a list each; two users that disable one service
  at once both hand its port back; threads that meet in the allow list file lose
  entries. Each excludes the port or the entry it touched (`reused`, `clobbered`,
  `retaken`) and no other.
- *Webservices*: a failure of `disable_webservice` after the exposed services are
  gone leaves a board that can neither be disabled nor enabled; an enable that
  finds no port leaves its record, a webservice on a local port that is taken its
  record, redirect and certificate; two webservices exposed at once on a board
  send two certificate lists of which the later may lack a name; two boards that
  enable one name at once both get it (`contested`); the ports of a board are
  handed back while its name still leads to them, so that `NoMisroute` excludes a
  name being disabled from `StopHttps` until its record is gone, and one being
  enabled until its site is written (`Changing`); an enable that goes on while its
  board is disabled serves the https port again after it was handed back, and the
  next disable hands it back a second time, then being another board's; the http
  port of a disabled module is not handed back until the list is rebuilt; and `disable_webservice` leaves the rows and records
  of the webservices, so a board that is later given the name inherits records
  that lead to another agent. The last needs no failure: without `orphan`,
  `WebserviceIsServed` fails with two boards of two agents, one name, one
  webservice each, two ports, one thread and `MaxDirty = 0`.
- *Inventory*: a name given by a PATCH or looked for twice at once is not unique;
  two injections of a plugin at once make two rows, after which
  `InjectionPlugin.get` raises; an injection and a removal that cross, an answer
  that comes after the timeout, or a board that refuses leave board and table
  apart; a service that is enabled while its board is destroyed leaves its entry
  in the allow list.
- *Interfaces*: a failed creation keeps its Neutron port and its number; the walk
  over the list that looks for a number in use skips the first entry after it has
  drawn again, and misses what another creation inserts, or a removal shifts,
  before its own insertion: two creations that both find the list empty may keep one
  number (`twice` holds the numbers that were in use unseen when they were
  inserted); a removal takes the number off the list before the row, and two removals
  of one port that cross take the number of another interface with it; a port may
  be removed through another board than its own.
- *Processes*: a killed process stays online in the table; one that is stopping
  may set its successor offline; a registration agent that moves leaves its
  address with the conductors that found it.
- *Lists*: a limit of 0 gives an empty page of the boards of a fleet or the results
  of a request; the links of boards, plugins, services and the lists of a fleet, a
  request and a board lose their parameters; a full page of enabled webservices
  or results has no link and is an error; the details of webservices, fleets and
  requests raise; services, and for users who are no administrators fleets and
  requests, are not filtered by project, nor are ports by anything; a page of
  boards is an error if an agent is offline.
- *Objects*: a PATCH with a value its field refuses is accepted, and writes the
  old value back; `refresh` marks what it read for the next save.
- *Schema*: `create_schema` over an upgrade that was cut off in its first
  revision stamps the last version on old tables; a revision cut off inside cannot
  be repeated; `boards.code` is NOT NULL after an upgrade only.

## 4. Proofs

Each module below has an invariant `IInv` that TLC checked before the proof, a
theorem `Inductive` (`Spec => []IInv`), one lemma for each action, and a theorem
for each property it gives. The constants are any sets: boards, threads, ports,
names, rows without bound. The assumptions are those of the modules (`ASSUME`,
which TLC evaluates in every run): `NULL` is none of the values, bounds are
natural numbers, and what is said below.

### BoardSessions_proofs

From `ConstantsAssumption` alone, for any boards, agents, threads and bound on losses:

- `Inductive`: `Spec => []IInv`;
- `TypeCorrect`, `TwoValidSessionsNeedAMeeting`, `BoardKeepsAgent`,
  `OnlineBoardHasSession`, `NoDeadSessionForgotten`, `OldConnectedAreLate` and
  `ConnectedBoardIsOnline`: the type invariant and the properties of
  `sessions_mix`. What they exclude is in the properties (section 3).

`SessionsAreSingle` is not inductive: a thread at `create` would break it if the
board had a valid session. `IInv` adds what makes it so.

- `Ownership`: what refers to a session refers to one a board has opened.
- `Roles`: an agent handles only sessions of its own router or of its boards,
  and never runs `registration`.
- `Routing`: a board has an agent before it has a configuration, and gets it
  once: a thread that has read the status REGISTERED implies there is no agent yet,
  or that two registrations ran at once. `AgentIsKept` rests on it.
- `Meeting`: two handlers of one board that run at once are in `met`, by the places
  they are at. It is what a call or an invalidation records when it starts, and it
  stays true since later steps only leave the places it speaks of.
- `Progress`: a thread at `invalidate_old` has read every valid session of its
  board, and at `create` there is none, unless the board is in `met["reading"]`. It
  holds because only a call of the same board could create one meanwhile, and that
  one would have been at its reading when this one started, or the other way round.

The last three theorems rest on a second invariant, `ConnInv`, inductive relative
to `IInv`.

- `LeaveFollows`: a call waiting or being handled is made on a session that is
  still live, or whose leave event is behind it. So a session that was gone when
  `connection` created its row is still invalidated. It holds because an agent
  sees a lost transport only between two handlers.
- `ListIsTrue`: what is valid and live is in the router's list until
  `update_sessions` has compared it, and so is the session a handler is about to
  create; or its connection started between the answer and the comparison (`late`).
- `OfflineIsRight`, `ConnectedOrInCall`: a handler about to set a board OFFLINE has
  taken its only connected session away, and no handler has given it another since;
  or the two are in `met`.

There is one lemma per action and invariant, one step per conjunct; `NextInv` and
`NextConn` put them together. `BoardSessions` uses no recursion.

### Requests_proofs

Operations keep apart but for the agent's loop: most of `IInv` speaks of one
operation (`OpInv`), and a step of another leaves it `Untouched`.

- `InOrder`, `AtCall`, `AtRefusal`: the calls are made in order under their main
  request, and the rows of a call say where its thread is.
- `Passing`: a call answered RUNNING is on one way back at most (the board's work,
  a notification, the agent's loop); `Owed`: while it is PENDING it is on it,
  unless it was dropped. `NoCallIsLost` follows.
- `Counting`: `pending_requests`, and every copy of it a thread has read, is no
  less than what is due: the calls not completed, and the threads on their way to
  the counter. A lost decrement leaves it too high, never too low, which is
  `CounterIsEnough`; a main request is completed only when all calls are.

`Refines` proves `ImplementsMain`: `InitSim`, and `StepSim`, by which a step opens,
starts, finishes or closes in `MainRequests`, or stutters. What changes is read off
the rows (`RecordedIsStatus`, `MainChanges`, `CallChanges`), so the same argument
serves the conductor's thread and the agent's.

### ServicePorts_proofs

- `Claims`: a port has one claim at most: a place in the list, a thread that took
  it, or a row that no thread is about to destroy; a port in `reused` excepted.
  `PortsAreNotShared` and `ListedIsUnused` follow.
- `Reasons`: an entry of the allow list has a row, a thread that sees to it, or
  is left over, or is in `clobbered` (`EntriesHaveReasons`).
- `Uses`: a board uses a port for one thing at a time, a row, a thread about to write
  one, or a thread about to remove the entry of one, unless the entry is in
  `retaken`. So the entry a thread removes is no other service's, which gives
  `Allowed`: a row, and a thread past the allow list, has its entry but for
  `clobbered` and `retaken` (`ExposedHasEntry`, for any number of services of a
  board). `ports_allow` shows that the exception is needed.

### VifPorts_proofs

The first part is about `Registry`: of each host on its own, what the table says of
its processes (`TableAt`); `TableIsKept` is the theorem. Above it:

- `OwnUuid`, `Tapped`, `OneRow`, `Accounted`: a port of Neutron has one holder,
  the call that makes it or its row, or is leaked (`PortsAreOwned`); `Plugged` the
  same of the board's interface (`RowsArePlugged`).
- `Walked`: a walk over a list that did not change has not met its number so far,
  and when it inserts it has come to the end. Any insertion or removal of another
  thread between two of its accesses ends that (`Disturbed`). It gives `OneClaim`
  when the number goes into the list: the number of a call behind the list is no
  row's and no other call's, unless it is in `twice` (`NumbersAreNotShared`), and
  `ClaimsListed`, that it is in a list (`RowsAreListed`).

`QuietStep` says once what a step does that leaves rows, boards and lists alone.
`RemoveFirstKeeps` is the lemma about `list.remove`: removing a number leaves the
others where they were, found with the least index that holds it.

### Records_proofs

`AssignmentsSurvive` needs that a save writes nothing that was not assigned.
`NothingForgotten` (what was assigned is marked) and its converse `NothingElse`
(what is marked was assigned or refused) give that, and `Shapes` tells the objects
that have a row from those that were made and not created. `ThroughRpc` is the
lemma that `FromPrimitive(ToPrimitive(o))` is `o`, marks included.

### Webservices_proofs, with Webservices_inv

An operation writes in eight places one after the other, so `IInv` says at each of
its steps which of them agree already and which do not any more. It has a part
for each place.

- `RunInv`: who meets. Two operations on one board, or that enable one name, have
  soiled it (`Alone`, `NewName`); the row of a board an operation works on is its
  own (`RowIsOwn`, `HasRow`). `UniqueDns` is one of its conjuncts, and `CheckedName`
  what it rests on: the name an operation has looked up and not saved is in no row
  and looked up by no other, or is `contested`, whatever has failed.
- `RecordInv`, `SiteInv`, `ServeInv`: record, site, exposed services and allow list
  of a row agree with it, unless an operation under its name is before the step
  that writes them or after the one that takes them back; and a record or an
  exposed service has a row or such an operation.
- `PortInv`: a port in the list is in no row, held by no operation and served by
  no board, and two of these are of one board; all unless `reused`.
- `WebInv`, `NameInv`, `RedirectInv`, `CertInv`: the same of webservices, their
  names, redirects and certificates.

A property says less than its parts because it speaks of boards nobody works on:
`SettledAlone` is the step between, by which no operation is anywhere under the
name of such a board. The Quiet lemmas keep a part over the steps that do not
touch its place, the Stays lemmas what a part says of other rows and webservices
over those that do; `RowCases` splits the rows into the operation's own, soiled
ones and those of other boards and names.

The proof changed the model: `StopHttps` set no `reused` when the port it hands
back was already another board's, and `NoMisroute` failed then in a behaviour of
six operations, out of the bounds of `web_mix`. In the same way `ForgetNumber` of
`VifPorts` recorded only some of the rows whose number leaves the list.

### Inventory_proofs, with Inventory_inv

`NullAssumption` says that `NULL` is no row, no call and no id; there is a board,
a plugin, a fleet, a service and a name, since the database at the start has one
of each (`Init`). The invariant has a part for each thing calls share.

- `NameInv`: a name `create_board` did not find is on no board yet, unless it
  clashes. `NameIsUnique` follows.
- `HoldsRow`: what a plugin call has read of the injections still holds: a row with
  its id is of its plugin and board, none is one that `remove_plugin` will not
  destroy, and a call that found no row still finds none. The exceptions are the
  marks `crossed` and `twice`. `InjectionIsOne` follows, because the row that would
  be the second is created by a call that found none.
- `HoldsAnswer`: the plugin is in the memory of the board as it told the call,
  unless an orphan, a reset or a crossing call changed it since.
- `CrossInv`: two calls of different kinds on one plugin and board, both past their
  first reads, are marked. It is what makes the other two inductive: a board that
  carries out `remove_plugin` falsifies what an `inject_plugin` was told.
- `PairAgrees`: memory and rows agree up to the calls between the two
  (`Underway`). Without calls it is `InjectionsAgree`.
- `ClaimInv`, `ListInv`, `EntryInv`: a port is free, taken by one call, or exposed;
  what `destroy_board` has read and no longer lists is no longer allowed; an entry
  has its row or the call that will create it. With the cascade of `exposed_services`
  they give `AllowedIsOwned`.

Most steps end or move one call. What a call claims of names, injections,
locations and ports is in four definitions (`NameKeeps`, `PluginKeeps`,
`LocateKeeps`, `PortKeeps`), and each part of the invariant stays if every call
keeps its claims or gives them up to `story` (`QuietStep`; `CutFacts` and
`RaiseKeeps` for a handler that raises or is killed). `ServiceStep`, `BoardStep`
and `RecordEnds` are the lemmas for steps that move ports, change a board's memory
or write an injection. `PatchKeepsTheRest` is an action property: `RowChanges` finds
the steps that change the row of a board that stays, `SavedBoard` says what a save
leaves of it.

`EntryInv` says more than `AllowedIsOwned` needs at first sight: that the call which
accounts for an entry is on the board of the entry, and not only that it has its
port. Without it `destroy_board` may leave the entry of another board behind.

### Database_proofs: Listing

From `ListingAssumption` (ids, keys and limits are numbers, `MaxLimit` is not 0) and
`NullAssumption` (`NULL` is no project, number or row): `SeenOnce` and `OnlyWanted`,
for every list, order and limit, any number of rows and of changes.

The argument is the marker. `SeenBehind`: what the client has is not after it.
`NothingSkipped`: what it has not and will be asked for is after it, or on the page
being made, or after the last row of a full page (`Beyond`), which is the next
marker. `PageSorted` puts the page after the marker, so nothing on it was seen
(`SeenDistinct`). `AllSteady` and `AllPlaced` tie the entries the walk keeps to the
rows of the table, as long as these have not changed. `AllSeen` is what is left of
`NothingSkipped` when there is no next page; `SeenWanted` and `PageWanted` give
`OnlyWanted`. The lemmas before it are about `Precedes` being a strict order of the
entries, the sorted sequence of a set of them (it exists, and a page is a prefix of
it) and its last element.

What the theorems do not say is in the properties: a marker whose key changed
(`shifted`), links that lost their parameters (`Keeps`), a row that changed during
the walk (`touched`), and a limit of 0 where it is not refused. The proof found the
last: a page that has no room at all is empty, so what is left out is after no
marker, and the instance had been given no such limit.

### Database_proofs: Schema

For any operators and any number of commands that are cut off:

- `VersionNeverAhead` and `UuidStaysUnique` from `SchemaInv`. A column that was made
  stays, so a command may rely on what it has made (`JobIsBehind`: `UpgradeMade`, the
  changes of its revision up to the one it is at, `CreateMade`, the tables it no
  longer lists), whatever the others do and wherever they stop. `Sound` says of a
  revision that its columns are those of the models and that a constraint on a uuid
  is dropped only by the change that follows the one adding its successor; so there
  is a constraint between the two as well.
- `HeadAlwaysModels`: `HeadIsModels` from `HeadInv`. `At(p)` says of each table what
  it is after the first p of the 47 changes the revisions are made of. `AtStep`: the
  change at each place can be made there and leads to the next; `RevisionsFollow`:
  the eight revisions are these changes, from one of the places `RevisionStarts` to
  the next; `AtHead`: at the last place the tables have the columns, constraints and
  keys of the models. `HeadInv` is then short: until a command is cut off in the
  middle of a revision or two overlap (`broken`), either nobody runs one and the
  database is between two revisions or at the head (`Resting`), or one operator does
  and is at such a place (`Upgrading`), or has created the models but those it still
  lists (`MakingModels`), in an order in which no key refers to a later table
  (`KeysAreEarlier`). `NothingRaises` comes with it: no upgrade fails where nothing
  was broken. `NoneAssumption` says that `NONE` is no command and no list of tables.

`HeadInv` and `At` were checked with TLC before they were proved, on the instance of
run `schema`. For the proofs the list of missing tables became a set, and its next
table the least (`First`), which are the tables `create_all` makes in its order.

### What is not proved

Every safety property of the passing runs is proved. Model-checked only: liveness
(`MainCompletes`, `WaitEnds`, `GoneBoardGoesOffline`), which is out of the prover's
reach. `Objects`, `MainRequests` and `Registry` have no specification of their own:
they are used in `Records`, `Requests`, `VifPorts`.

## 5. Plan

Done: every module of section 2, and the proofs of section 4.

Left: `HashRing`, against its docstring, and `versionCompare`.

## 6. Not modelled

- `common/hash_ring.py`: no code of the repository uses it. `versionCompare` only
  selects the arguments of a call.
- `common/policy.py`, `common/keystone.py`, `auth_token.py`: declarative rules and
  a middleware without state. The two places where a role changes a result (the
  filters of the lists) are in `Listing`.
- `openstack/common/`: vendored, and not used by the conductor or the agent.
- Formatting, links, JSON, logging, the hooks of the API, the checks of a
  plugin's code and parameters, and the reload of the proxy after its files
  changed.
- Of the object layer versions, remote methods and the conversion of values: the
  indirection API is never set. Of the API the `ResultsController`, which no
  route leads to, and the look-up of the registration agent for boards without a
  configuration. Of `iotronic-dbsync` the commands `stamp`, `revision` and the
  online data migrations, of which there are none.
- `renew_webservice` beyond its requests: it changes nothing else.
