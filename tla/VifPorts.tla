------------------------------ MODULE VifPorts ------------------------------
(***************************************************************************)
(* Virtual interfaces: create_port_on_board and remove_VIF_from_board, with *)
(* the conductor's list of socat ports, the Neutron ports, the interfaces  *)
(* of the boards and the tap interfaces of the agents.                     *)
(*                                                                         *)
(* The list lives in the memory of one conductor process, and its threads  *)
(* run on as long as the process does: see Registry. A step that raises    *)
(* ends the handler and nothing it has done is undone.                     *)
(***************************************************************************)
EXTENDS Registry, SequencesExt

CONSTANTS
  Clients,   \* of the REST API, with one call at a time each
  Boards,
  MainAgent, \* the agent of each board
  Numbers,   \* of socat ports
  Uuids      \* of Neutron ports

(* The handlers of the two calls, and where they are. *)
CreateSteps == {"read", "neutron", "draw", "test", "compare", "insert", "vif", "tap", "row", "configure"}
RemoveSteps == {"read", "vif", "forget", "delete", "destroy"}

CreateCalls == [kind : {"create"}, at : CreateSteps, proc : Procs, board : Boards,
                uuid : Uuids \cup {NULL}, num : Numbers \cup {NULL},
                i : Nat, from : {1, 2}, fresh : BOOLEAN]  \* the walk: its index, and ghosts
RemoveCalls == [kind : {"remove"}, at : RemoveSteps, proc : Procs, board : Boards,
                uuid : Uuids, num : Numbers]
Calls       == CreateCalls \cup RemoveCalls

ASSUME VifAssumption ==
  /\ MainAgent \in [Boards -> Agents]
  /\ NULL \notin Uuids \cup Numbers \cup Calls

VARIABLES
  list,     \* Port, the list of socat ports, in each conductor process
  rows,     \* of ports_on_boards: [uuid, board, num]
  neutron,  \* ports of Neutron
  boards,   \* rows of boards: online, not online, or NULL
  vifs,     \* the interfaces on each board, by number
  taps,     \* the tap interfaces on the agents' hosts: <<uuid, num>>
  op,       \* the call of each client
  story     \* ghost: what went wrong, by number and uuid

platform == <<neutron, boards, vifs, taps>>
vifState == <<list, rows, platform, op, story>>
vars     == <<registry, budget, fate, vifState>>

Rows == [uuid : Uuids, board : Boards, num : Numbers]
Stories == [twice : SUBSET Numbers, lost : SUBSET Numbers, leaked : SUBSET Uuids,
            unplugged : SUBSET (Boards \X Numbers)]
IsUp(b) == boards[b] = TRUE
Busy(c, kind, at) == op[c] # NULL /\ op[c].kind = kind /\ op[c].at = at
Move(c, at)  == op' = [op EXCEPT ![c].at = at]
Listed(c)    == list[op[c].proc]
Served       == {p \in Procs : proc[Conductor][p] = "serve"}
AgentRuns(b) == \E p \in Procs : proc[MainAgent[b]][p] = "run"

(* Everything is up and a conductor serves, as after a start without faults. *)
InitRunning ==
  LET r == CHOOSE a \in Agents : TRUE
      u == CHOOSE u \in Urls : TRUE
      p == CHOOSE p \in Procs : TRUE
      At(h) == IF h = Conductor THEN "serve" ELSE "run"
  IN /\ conductors = TRUE
     /\ conf = [a \in Agents |-> [ragent |-> a = r, wsurl |-> u]]
     /\ wampagents = [a \in Agents |-> [online |-> TRUE, ragent |-> a = r, wsurl |-> u]]
     /\ proc = [h \in Hosts |-> [q \in Procs |-> IF q = p THEN At(h) ELSE "off"]]
     /\ found = [q \in Procs |-> IF q = p THEN [host |-> r, wsurl |-> u] ELSE NULL]
     /\ budget \in Budgets
     /\ fate = [killed |-> {}, overlap |-> {}]

Init ==
  /\ IF \E b \in Budgets : b.calls > 0 THEN InitRunning \/ (InitRegistry /\ budget.calls = 0)
     ELSE InitRegistry
  /\ list = [p \in Procs |-> <<>>]
  /\ rows = {}
  /\ neutron = {}
  /\ boards = [b \in Boards |-> TRUE]
  /\ vifs = [b \in Boards |-> {}]
  /\ taps = {}
  /\ op = [c \in Clients |-> NULL]
  /\ story = [twice |-> {}, lost |-> {}, leaked |-> {}, unplugged |-> {}]

-----------------------------------------------------------------------------
(* The call of a client ends; what it holds is left behind: a Neutron port  *)
(* without a row, or a row whose number is no longer listed.                *)
Left(set) ==
  LET holds == {c \in set : op[c] # NULL /\ op[c].uuid # NULL}
      made  == {c \in holds : op[c].kind = "create" /\ op[c].at # "configure"}
      gone  == {c \in holds : op[c].kind = "remove" /\ op[c].at \in {"delete", "destroy"}}
  IN [story EXCEPT !.leaked = @ \cup {op[c].uuid : c \in made \cup gone},
                   !.lost   = @ \cup {op[c].num : c \in gone}]

Answer(c) == op' = [op EXCEPT ![c] = NULL] /\ UNCHANGED story
Raise(c)  == op' = [op EXCEPT ![c] = NULL] /\ story' = Left({c})

(* PUT /boards/{board}/ports: the board must be online in its row. *)
PutPort(c) ==
  /\ op[c] = NULL /\ budget.calls > 0
  /\ \E b \in Boards, p \in Served :
       /\ IsUp(b)
       /\ op' = [op EXCEPT ![c] = [kind |-> "create", at |-> "read", proc |-> p, board |-> b,
                                   uuid |-> NULL, num |-> NULL, i |-> 0, from |-> 1, fresh |-> FALSE]]
  /\ budget' = [budget EXCEPT !.calls = @ - 1]
  /\ UNCHANGED <<registry, fate, list, rows, platform, story>>

(* DELETE of a port through a board that is online; nothing says that the   *)
(* port has to be one of that board.                                        *)
DeletePort(c) ==
  /\ op[c] = NULL /\ budget.calls > 0
  /\ \E r \in rows, b \in Boards, p \in Served :
       /\ IsUp(b)
       /\ op' = [op EXCEPT ![c] = [kind |-> "remove", at |-> "read", proc |-> p, board |-> b,
                                   uuid |-> r.uuid, num |-> r.num]]
  /\ budget' = [budget EXCEPT !.calls = @ - 1]
  /\ UNCHANGED <<registry, fate, list, rows, platform, story>>

-----------------------------------------------------------------------------
(* create_port_on_board *)

ReadBoard(c) ==
  /\ Busy(c, "create", "read")
  /\ IF IsUp(op[c].board) THEN Move(c, "neutron") /\ UNCHANGED story ELSE Raise(c)
  /\ UNCHANGED <<list, rows, platform>>

(* add_port_to_network *)
AddPort(c) ==
  /\ Busy(c, "create", "neutron")
  /\ \E u \in Uuids \ (neutron \cup {r.uuid : r \in rows} \cup {t[1] : t \in taps}) :
       /\ neutron' = neutron \cup {u}
       /\ op' = [op EXCEPT ![c].at = "draw", ![c].uuid = u]
  /\ UNCHANGED <<list, rows, boards, vifs, taps, story>>

(* port_socat = random.randint(10000, 20000). The walk over the list starts  *)
(* at index from, and is fresh until the list changes.                      *)
DrawFrom(c, k) ==
  \E n \in Numbers :
    op' = [op EXCEPT ![c].at = "test", ![c].num = n, ![c].i = k, ![c].from = k, ![c].fresh = TRUE]

Draw(c) ==
  /\ Busy(c, "create", "draw")
  /\ DrawFrom(c, 1)
  /\ UNCHANGED <<list, rows, platform, story>>

(* while i < len(Port). The threads of the process share the list: it may   *)
(* change between this test, the access it allows and the insertion.        *)
Test(c) ==
  /\ Busy(c, "create", "test")
  /\ Move(c, IF op[c].i <= Len(Listed(c)) THEN "compare" ELSE "insert")
  /\ UNCHANGED <<list, rows, platform, story>>

(* Mutant: the walk starts behind the first number. *)
CompareSecond(c) ==
  /\ Busy(c, "create", "compare")
  /\ IF op[c].i > Len(Listed(c)) THEN Raise(c)
     ELSE /\ UNCHANGED story
          /\ IF op[c].i > 1 /\ Listed(c)[op[c].i] = op[c].num THEN DrawFrom(c, 2)
             ELSE op' = [op EXCEPT ![c].at = "test", ![c].i = @ + 1]
  /\ UNCHANGED <<list, rows, platform>>

(* Port[i] == port_socat, or an IndexError if a removal has shortened the    *)
(* list. A number that is listed is drawn again; i = 0 and i += 1 then leave *)
(* the first of the list out.                                               *)
Compare(c) ==
  /\ Busy(c, "create", "compare")
  /\ IF op[c].i > Len(Listed(c)) THEN Raise(c)
     ELSE /\ UNCHANGED story
          /\ IF Listed(c)[op[c].i] = op[c].num THEN DrawFrom(c, 2)
             ELSE op' = [op EXCEPT ![c].at = "test", ![c].i = @ + 1]
  /\ UNCHANGED <<list, rows, platform>>

(* A number in use that the walk could not see: it is the first of the list  *)
(* and was drawn again, the list changed during the walk, or the number is   *)
(* not in this list any more.                                               *)
Unseen(c) ==
  \/ op[c].from = 2 /\ Listed(c) # <<>> /\ Head(Listed(c)) = op[c].num
  \/ ~op[c].fresh
  \/ op[c].num \in story.lost
  \/ \E p \in Procs \ {op[c].proc} : Contains(list[p], op[c].num)
  \/ \E d \in Clients \ {c} :
       (Busy(d, "remove", "delete") \/ Busy(d, "remove", "destroy")) /\ op[d].num = op[c].num

(* The walks over a list that changes are not fresh any more. *)
Disturbed(p) ==
  [d \in Clients |-> IF op[d] # NULL /\ op[d].kind = "create" /\ op[d].proc = p
                     THEN [op[d] EXCEPT !.fresh = FALSE] ELSE op[d]]

InUse(n) ==
  \/ n \in story.lost
  \/ \E r \in rows : r.num = n
  \/ \E p \in Procs : Contains(list[p], n)

(* Port.insert(0, port_socat) *)
InsertNumber(c) ==
  /\ Busy(c, "create", "insert")
  /\ list' = [list EXCEPT ![op[c].proc] = <<op[c].num>> \o @]
  /\ op' = [Disturbed(op[c].proc) EXCEPT ![c].at = "vif", ![c].i = 0, ![c].from = 1]
  /\ story' = IF Unseen(c) /\ InUse(op[c].num)
              THEN [story EXCEPT !.twice = @ \cup {op[c].num}] ELSE story
  /\ UNCHANGED <<rows, platform>>

(* execute_on_board Create_VIF: nobody looks at what the board answers. *)
CreateVif(c) ==
  /\ Busy(c, "create", "vif")
  /\ IsUp(op[c].board)
  /\ LET b == op[c].board IN
       \/ /\ vifs' = [vifs EXCEPT ![b] = @ \cup {op[c].num}]
          /\ \/ Move(c, "tap") /\ UNCHANGED story
             \/ Raise(c)
       \/ /\ Move(c, "tap")
          /\ story' = [story EXCEPT !.unplugged = @ \cup {<<b, op[c].num>>}]
          /\ UNCHANGED vifs
  /\ UNCHANGED <<list, rows, neutron, boards, taps>>

(* create_tap_interface on the host of the agent *)
CreateTap(c) ==
  /\ Busy(c, "create", "tap")
  /\ AgentRuns(op[c].board)
  /\ taps' = taps \cup {<<op[c].uuid, op[c].num>>}
  /\ \/ Move(c, "row") /\ UNCHANGED story
     \/ Raise(c)
  /\ UNCHANGED <<list, rows, neutron, boards, vifs>>

(* port_iotronic.create() *)
CreateRow(c) ==
  /\ Busy(c, "create", "row")
  /\ boards[op[c].board] # NULL
  /\ rows' = rows \cup {[uuid |-> op[c].uuid, board |-> op[c].board, num |-> op[c].num]}
  /\ Move(c, "configure")
  /\ UNCHANGED <<list, platform, story>>

(* execute_on_board Configure_VIF: an exception is logged, that is all. *)
ConfigureVif(c) ==
  /\ Busy(c, "create", "configure")
  /\ Answer(c)
  /\ UNCHANGED <<list, rows, platform>>

-----------------------------------------------------------------------------
(* remove_VIF_from_board *)

ReadPort(c) ==
  /\ Busy(c, "remove", "read")
  /\ IF boards[op[c].board] # NULL /\ \E r \in rows : r.uuid = op[c].uuid
     THEN Move(c, "vif") /\ UNCHANGED story ELSE Raise(c)
  /\ UNCHANGED <<list, rows, platform>>

(* execute_on_board Remove_VIF *)
RemoveVif(c) ==
  /\ Busy(c, "remove", "vif")
  /\ IsUp(op[c].board)
  /\ LET b == op[c].board IN
       \/ Move(c, "forget") /\ UNCHANGED <<vifs, story>>
       \/ /\ vifs' = [vifs EXCEPT ![b] = @ \ {op[c].num}]
          /\ Move(c, "forget")
          /\ story' = [story EXCEPT !.unplugged = @ \cup {<<b, op[c].num>>}]
       \/ /\ vifs' = [vifs EXCEPT ![b] = @ \ {op[c].num}]
          /\ op' = [op EXCEPT ![c] = NULL]
          /\ story' = [story EXCEPT !.unplugged = @ \cup {<<b, op[c].num>>}]
  /\ UNCHANGED <<list, rows, neutron, boards, taps>>

(* Mutant: every entry of the number goes. *)
ForgetNumberAll(c) ==
  /\ Busy(c, "remove", "forget")
  /\ list' = [list EXCEPT ![op[c].proc] = SelectSeq(@, LAMBDA n : FALSE)]
  /\ Move(c, "delete")
  /\ UNCHANGED <<rows, platform, story>>

(* Port.remove(port_num): the first entry, or ValueError. The entry may be  *)
(* another interface's by now, if the row is gone with an earlier removal.  *)
ForgetNumber(c) ==
  /\ Busy(c, "remove", "forget")
  /\ IF Contains(Listed(c), op[c].num)
     THEN /\ list' = [list EXCEPT ![op[c].proc] = RemoveFirst(@, op[c].num)]
          /\ op' = [Disturbed(op[c].proc) EXCEPT ![c].at = "delete"]
          /\ story' = IF \E r \in rows : r.uuid = op[c].uuid THEN story
                      ELSE [story EXCEPT !.lost = @ \cup {op[c].num}]
     ELSE Raise(c) /\ UNCHANGED list
  /\ UNCHANGED <<rows, platform>>

(* Mutant: the port stays in Neutron. *)
DeleteNeutronPortNot(c) ==
  /\ Busy(c, "remove", "delete")
  /\ Move(c, "destroy")
  /\ UNCHANGED <<list, rows, platform, story>>

(* neutron.delete_port answers 0 if it fails; nobody looks. *)
DeleteNeutronPort(c) ==
  /\ Busy(c, "remove", "delete")
  /\ \/ neutron' = neutron \ {op[c].uuid} /\ UNCHANGED story
     \/ story' = [story EXCEPT !.leaked = @ \cup {op[c].uuid}] /\ UNCHANGED neutron
  /\ Move(c, "destroy")
  /\ UNCHANGED <<list, rows, boards, vifs, taps>>

(* port.destroy(); PortNotFound is logged. *)
DestroyRow(c) ==
  /\ Busy(c, "remove", "destroy")
  /\ rows' = {r \in rows : r.uuid # op[c].uuid}
  /\ Answer(c)
  /\ UNCHANGED <<list, platform>>

(* Neutron, the board or the agent does not answer, or the insert fails. *)
Fails(c) ==
  /\ op[c] # NULL /\ op[c].at \in {"neutron", "vif", "tap", "row", "delete"}
  /\ Raise(c)
  /\ UNCHANGED <<list, rows, platform>>

-----------------------------------------------------------------------------
(* Mutant: destroying a board leaves its rows. *)
DestroyBoardOnly(b) ==
  /\ boards[b] # NULL /\ budget.toggles > 0
  /\ budget' = [budget EXCEPT !.toggles = @ - 1]
  /\ boards' = [boards EXCEPT ![b] = NULL]
  /\ vifs' = [vifs EXCEPT ![b] = {}]
  /\ UNCHANGED <<registry, fate, list, rows, neutron, taps, op, story>>

(* destroy_board: the rows cascade; the board, if it is online, is reset.   *)
DestroyBoard(b) ==
  /\ boards[b] # NULL /\ budget.toggles > 0
  /\ budget' = [budget EXCEPT !.toggles = @ - 1]
  /\ boards' = [boards EXCEPT ![b] = NULL]
  /\ rows' = {r \in rows : r.board # b}
  /\ vifs' = IF IsUp(b) THEN [vifs EXCEPT ![b] = {}] ELSE vifs
  /\ story' = [story EXCEPT !.leaked = @ \cup {r.uuid : r \in rows \ rows'}]
  /\ UNCHANGED <<registry, fate, list, neutron, taps, op>>

(* connection and board_on_leave *)
Toggle(b) ==
  /\ boards[b] # NULL /\ budget.toggles > 0
  /\ budget' = [budget EXCEPT !.toggles = @ - 1]
  /\ boards' = [boards EXCEPT ![b] = ~@]
  /\ UNCHANGED <<registry, fate, list, rows, neutron, vifs, taps, op, story>>

(* A conductor process that ends takes its threads and its list with it;    *)
(* server.wait() lets the threads of one that stops come to their end.      *)
Ended == {p \in Procs : proc[Conductor][p] # "off" /\ proc'[Conductor][p] = "off"}
Waited == \A c \in Clients :
  op[c] # NULL /\ op[c].proc \in Ended => proc[Conductor][op[c].proc] # "stop"

Processes ==
  /\ NextRegistry
  /\ Waited \/ budget' # budget
  /\ LET dead == {c \in Clients : op[c] # NULL /\ op[c].proc \in Ended} IN
       /\ op' = [c \in Clients |-> IF c \in dead THEN NULL ELSE op[c]]
       /\ list' = [p \in Procs |-> IF p \in Ended THEN <<>> ELSE list[p]]
       /\ story' = IF Ended = {} THEN story
                   ELSE [Left(dead) EXCEPT
                           !.lost = @ \cup UNION {ToSet(list[p]) : p \in Ended}]
  /\ UNCHANGED <<rows, platform>>

Handler(c) ==
  \/ ReadBoard(c) \/ AddPort(c) \/ Draw(c) \/ Test(c) \/ Compare(c)
  \/ InsertNumber(c) \/ CreateVif(c) \/ CreateTap(c) \/ CreateRow(c) \/ ConfigureVif(c)
  \/ ReadPort(c) \/ RemoveVif(c) \/ ForgetNumber(c) \/ DeleteNeutronPort(c) \/ DestroyRow(c)
  \/ Fails(c)

Next ==
  \/ Processes
  \/ \E c \in Clients : PutPort(c) \/ DeletePort(c)
  \/ \E c \in Clients : Handler(c) /\ UNCHANGED <<registry, budget, fate>>
  \/ \E b \in Boards : DestroyBoard(b) \/ Toggle(b)

Spec == Init /\ [][Next]_vars /\ FairRegistry

-----------------------------------------------------------------------------
(* Properties *)

TypeOK ==
  /\ RegistryTypeOK
  /\ list \in [Procs -> Seq(Numbers)]
  /\ rows \subseteq Rows
  /\ neutron \subseteq Uuids
  /\ boards \in [Boards -> BOOLEAN \cup {NULL}]
  /\ vifs \in [Boards -> SUBSET Numbers]
  /\ taps \subseteq Uuids \X Numbers
  /\ op \in [Clients -> Calls \cup {NULL}]
  /\ story \in Stories

Removing(r, at) == \E c \in Clients : Busy(c, "remove", at) /\ op[c].uuid = r.uuid

(* Two interfaces have one number only if it was drawn again after a match   *)
(* and is the first of the list, the list changed during the walk (another   *)
(* creation or a removal of the process), a removal had taken the number off *)
(* the list before the row, or another process has it in a list of its own.  *)
NoSharedNumber ==
  \A r, s \in rows : r.num = s.num => r = s \/ r.num \in story.twice

(* The number of every row is in the list of a conductor, without which     *)
(* remove_VIF_from_board raises, unless the list was lost with its process, *)
(* a removal has failed half way, or one of a row already gone took the     *)
(* number of another.                                                       *)
RowIsListed ==
  \A r \in rows :
    \/ \E p \in Procs : Contains(list[p], r.num)
    \/ r.num \in story.lost \cup story.twice
    \/ Removing(r, "delete") \/ Removing(r, "destroy")

(* Every port of Neutron belongs to a row or to a call in progress, unless  *)
(* a step of its creation or removal failed or its board was destroyed.     *)
PortIsOwned ==
  \A u \in neutron :
    \/ \E r \in rows : r.uuid = u
    \/ \E c \in Clients : op[c] # NULL /\ op[c].kind = "create" /\ op[c].uuid = u
    \/ u \in story.leaked

(* Every row has its interface on its board and its tap on the agent's      *)
(* host, unless the board refused it or a removal has reached the board,    *)
(* and its port in Neutron, unless it is being removed or that was cut off. *)
RowIsPlugged ==
  \A r \in rows :
    /\ <<r.uuid, r.num>> \in taps
    /\ r.num \in vifs[r.board] \/ <<r.board, r.num>> \in story.unplugged
    /\ r.uuid \in neutron \/ Removing(r, "destroy") \/ r.uuid \in story.leaked
=============================================================================
