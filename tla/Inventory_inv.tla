---------------------------- MODULE Inventory_inv ----------------------------
(***************************************************************************)
(* The inductive invariant of Inventory. Calls interleave at each access to *)
(* the database and at each call on a board, so that what the tables, the   *)
(* memory of the boards and the allow list say of one another holds up to   *)
(* the calls that are between two of these: the parts of the invariant say  *)
(* what each of them has read, what the board has answered it and what it   *)
(* has taken, and story what became of those that did not get to the end.   *)
(***************************************************************************)
EXTENDS Inventory

(* Calls of the kinds that work on a board.                                *)
DeviceOps == PluginOps \cup {"actionPlugin", "destroyBoard", "enableService"}

(* Rows are of uuids that were given, and of boards that exist; injections *)
(* have ids of their own.                                                  *)
TableInv ==
  /\ \A t \in Tables : \A id \in Uuids(t) : Exists(t, id) => id \in born[t]
  /\ \A b \in Boards : b \notin born.boards => installed[b] = {}
  /\ \A x \in exposed : Exists("boards", x.board)
  /\ \A i \in injections : i.id < spent.serial
  /\ \A i, j \in injections : i.id = j.id => i = j

(* A call on a board is on one that was given, no other call gets as far as *)
(* the board; create_board knows its board; a PATCH changes what it asks.  *)
CallInv ==
  \A c \in Clients : calls[c] # NULL =>
    /\ calls[c].op \in DeviceOps => calls[c].board \in born.boards
    /\ calls[c].at \in {"execute", "invoke", "orphan"} => calls[c].op \in DeviceOps
    /\ calls[c].op = "createBoard" /\ calls[c].at = "locate" => calls[c].id \in Boards
    /\ calls[c].op = "updateBoard" => calls[c].msg.changes \subseteq calls[c].asked

(* A name that create_board did not find is on no board, unless it clashes. *)
NameInv ==
  /\ UniqueName
  /\ \A c \in Clients : Busy(c, "createBoard", "insert") =>
       calls[c].msg.data.name \in story.clash \cup {n \in Names : ~ExistsByName(n)}

(* A plugin call and the row it has read.                                  *)
HoldsRow(c) ==
  /\ calls[c].row # NULL =>
       /\ calls[c].row < spent.serial
       /\ \A i \in injections : i.id = calls[c].row => <<i.board, i.plugin>> = Pair(c)
  /\ calls[c].op = "removePlugin" /\ calls[c].at # "read" =>
       /\ calls[c].row # NULL
       /\ \/ "crossed" \in story.pairs[Pair(c)]
          \/ \A i \in RowsOf(calls[c].board, calls[c].plugin) : i.id = calls[c].row
  /\ calls[c].op = "injectPlugin" /\ calls[c].at = "record" /\ calls[c].row = NULL =>
       RowsOf(calls[c].board, calls[c].plugin) = {} \/ "twice" \in story.pairs[Pair(c)]
RowInv == \A c \in Clients : calls[c] # NULL /\ calls[c].op \in PluginOps => HoldsRow(c)

(* A plugin call and the memory of its board, once the board has answered. *)
IsThere(c) == calls[c].plugin \in installed[calls[c].board]
HoldsAnswer(c) ==
  /\ calls[c].op = "injectPlugin" /\ calls[c].at \in {"lookup", "record"} =>
       IF calls[c].result = "SUCCESS"
       THEN IsThere(c) \/ story.pairs[Pair(c)] \cap {"lost", "reset", "crossed"} # {}
       ELSE "failed" \in story.pairs[Pair(c)]
  /\ calls[c].op = "removePlugin" /\ calls[c].at = "record" =>
       calls[c].result = "SUCCESS" /\ (~IsThere(c) \/ "crossed" \in story.pairs[Pair(c)])
AnswerInv == \A c \in Clients : calls[c] # NULL /\ calls[c].op \in PluginOps => HoldsAnswer(c)

(* Two calls that meet have crossed.                                       *)
CrossInv ==
  \A c, d \in Clients :
    /\ calls[c] # NULL /\ calls[c].op = "injectPlugin" /\ calls[c].at # "read"
    /\ calls[d] # NULL /\ calls[d].op = "removePlugin" /\ calls[d].at # "read"
    /\ Pair(c) = Pair(d)
    => "crossed" \in story.pairs[Pair(c)]

(* What InstalledIsRecorded and RecordedIsInstalled say of pairs on which  *)
(* calls are under way.                                                    *)
Underway(q, op, at) ==
  \E c \in Clients : /\ calls[c] # NULL /\ calls[c].op = op /\ calls[c].at \in at
                    /\ calls[c].result = "SUCCESS" /\ Pair(c) = q

PairAgrees(q) ==
  /\ Exists("boards", q[1]) /\ q[2] \in installed[q[1]] =>
       \/ RowsOf(q[1], q[2]) # {}
       \/ story.pairs[q] \cap {"lost", "crossed"} # {}
       \/ Underway(q, "injectPlugin", {"lookup", "record"})
  /\ RowsOf(q[1], q[2]) # {} =>
       \/ q[2] \in installed[q[1]]
       \/ story.pairs[q] \cap {"lost", "failed", "reset", "crossed"} # {}
       \/ Underway(q, "removePlugin", {"record"})
AgreeInv == \A q \in Pairs : PairAgrees(q)

InjectionInv == OneInjection /\ RowInv /\ AnswerInv /\ CrossInv /\ AgreeInv

(* A port has one claim at most: it is free, a call has taken it, or it is *)
(* exposed. What destroy_board has read was exposed.                       *)
Taking(c) == calls[c] # NULL /\ calls[c].op = "enableService" /\ calls[c].port # NULL
ClaimInv ==
  /\ \A x \in exposed : x.port \notin free
  /\ \A c \in Clients : Taking(c) =>
       /\ calls[c].port \notin free
       /\ \A x \in exposed : x.port # calls[c].port
       /\ \A d \in Clients : Taking(d) /\ calls[d].port = calls[c].port => d = c
  /\ \A c \in Clients : calls[c] # NULL /\ calls[c].op = "enableService" =>
       /\ calls[c].at \in {"read", "allow", "execute", "invoke", "record", "orphan"}
       /\ calls[c].at = "read" <=> calls[c].port = NULL
       /\ calls[c].at = "orphan" => calls[c].port \in story.stray

(* destroy_board has removed from the allow list what it no longer lists.  *)
ListInv ==
  \A c \in Clients : calls[c] # NULL /\ calls[c].op = "destroyBoard" =>
    /\ calls[c].list \subseteq calls[c].seen
    /\ \A x \in calls[c].seen :
         /\ x.board = calls[c].board
         /\ x.port \notin free
         /\ \A d \in Clients : Taking(d) => calls[d].port # x.port
         /\ x \notin calls[c].list => <<x.board, x.port>> \notin allowed

(* An entry of the allow list has its row, or the call that will create it.*)
EntryInv ==
  \A e \in allowed :
    \/ e[2] \in story.stray
    \/ \E c \in Clients : Taking(c) /\ calls[c].board = e[1] /\ calls[c].port = e[2]
    \/ \E x \in exposed : x.board = e[1] /\ x.port = e[2]

PortInv == ClaimInv /\ ListInv /\ EntryInv

IInv == TypeOK /\ TableInv /\ CallInv /\ NameInv /\ InjectionInv /\ HasLocation /\ PortInv
=============================================================================
