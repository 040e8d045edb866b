--------------------------- MODULE Inventory_proofs ---------------------------
(***************************************************************************)
(* Inventory keeps the invariant of Inventory_inv, and its properties       *)
(* follow. Most steps move or end one call: what a call claims of names,    *)
(* injections, locations and ports is in the Keeps definitions, and         *)
(* QuietStep puts them together. ServiceStep does the same for the steps    *)
(* that change ports and the allow list, PluginStep for those that change   *)
(* the memory of a board or its injections.                                 *)
(***************************************************************************)
EXTENDS Inventory_inv, TLAPS

-----------------------------------------------------------------------------
(* The kinds of calls.                                                      *)
LEMMA CallKinds ==
  ASSUME NEW m \in Calls
  PROVE  /\ m.op \in {"createBoard", "updateBoard", "createPlugin", "createService", "createFleet",
                      "updatePlugin", "updateService", "updateFleet", "destroyPlugin",
                      "destroyService", "destroyFleet"} \cup DeviceOps
         /\ m.at \in Labels
         /\ m.op = "createBoard" => m \in CreateBoards
         /\ m.op = "updateBoard" => m \in UpdateBoards
         /\ m.op = "destroyBoard" => m \in DestroyBoards
         /\ m.op \in {"createPlugin", "createService", "createFleet"} => m \in CreateRows
         /\ m.op \in PluginOps \cup {"actionPlugin"} => m \in PluginCalls
         /\ m.op = "enableService" => m \in EnableCalls
         /\ m.op = "updatePlugin" => m \in UpdateRows("updatePlugin", Plugins)
         /\ m.op = "updateService" => m \in UpdateRows("updateService", Services)
         /\ m.op = "updateFleet" => m \in UpdateRows("updateFleet", Fleets)
         /\ m.op = "destroyPlugin" => m \in DestroyRows("destroyPlugin", Plugins)
         /\ m.op = "destroyService" => m \in DestroyRows("destroyService", Services)
         /\ m.op = "destroyFleet" => m \in DestroyRows("destroyFleet", Fleets)
<1>1. CASE m \in CreateBoards BY <1>1 DEF CreateBoards, PluginOps
<1>2. CASE m \in UpdateBoards BY <1>2 DEF UpdateBoards, PluginOps
<1>3. CASE m \in DestroyBoards BY <1>3 DEF DestroyBoards, PluginOps, DeviceOps
<1>4. CASE m \in CreateRows BY <1>4 DEF CreateRows, PluginOps
<1>5. CASE m \in PluginCalls BY <1>5 DEF PluginCalls, PluginOps, DeviceOps
<1>6. CASE m \in EnableCalls BY <1>6 DEF EnableCalls, PluginOps, DeviceOps
<1>7. CASE m \in UpdateRows("updatePlugin", Plugins) BY <1>7 DEF UpdateRows, PluginOps
<1>8. CASE m \in UpdateRows("updateService", Services) BY <1>8 DEF UpdateRows, PluginOps
<1>9. CASE m \in UpdateRows("updateFleet", Fleets) BY <1>9 DEF UpdateRows, PluginOps
<1>10. CASE m \in DestroyRows("destroyPlugin", Plugins) BY <1>10 DEF DestroyRows, PluginOps
<1>11. CASE m \in DestroyRows("destroyService", Services) BY <1>11 DEF DestroyRows, PluginOps
<1>12. CASE m \in DestroyRows("destroyFleet", Fleets) BY <1>12 DEF DestroyRows, PluginOps
<1>. QED BY <1>1, <1>2, <1>3, <1>4, <1>5, <1>6, <1>7, <1>8, <1>9, <1>10, <1>11, <1>12 DEF Calls

(* Two calls that differ in where they are.                                *)
Moved(m, n) ==
  /\ n.op = m.op
  /\ m.op = "createBoard" => n.id = m.id /\ n.msg = m.msg
  /\ m.op = "updateBoard" => n.id = m.id /\ n.msg = m.msg /\ n.asked = m.asked
  /\ m.op \in DeviceOps => n.board = m.board
  /\ m.op = "destroyBoard" => n.list = m.list /\ n.seen = m.seen
  /\ m.op \in PluginOps \cup {"actionPlugin"} =>
       n.plugin = m.plugin /\ n.row = m.row /\ n.result = m.result
  /\ m.op = "enableService" => n.service = m.service /\ n.port = m.port

(* A call that goes on stays one and keeps what it is about.                *)
LEMMA MoveCall ==
  ASSUME NEW m \in Calls, NEW at \in Labels
  PROVE  /\ [m EXCEPT !.at = at] \in Calls
         /\ [m EXCEPT !.at = at].at = at
         /\ Moved(m, [m EXCEPT !.at = at])
<1>. DEFINE n == [m EXCEPT !.at = at]
<1>. USE DEF Moved, PluginOps, DeviceOps
<1>1. CASE m \in CreateBoards
  <2>1. n \in CreateBoards /\ n.at = at /\ Moved(m, n) BY <1>1 DEF CreateBoards
  <2>. QED BY <2>1 DEF Calls
<1>2. CASE m \in UpdateBoards
  <2>1. n \in UpdateBoards /\ n.at = at /\ Moved(m, n) BY <1>2 DEF UpdateBoards
  <2>. QED BY <2>1 DEF Calls
<1>3. CASE m \in DestroyBoards
  <2>1. n \in DestroyBoards /\ n.at = at /\ Moved(m, n) BY <1>3 DEF DestroyBoards
  <2>. QED BY <2>1 DEF Calls
<1>4. CASE m \in CreateRows
  <2>1. n \in CreateRows /\ n.at = at /\ Moved(m, n) BY <1>4 DEF CreateRows
  <2>. QED BY <2>1 DEF Calls
<1>5. CASE m \in PluginCalls
  <2>1. n \in PluginCalls /\ n.at = at /\ Moved(m, n) BY <1>5 DEF PluginCalls
  <2>. QED BY <2>1 DEF Calls
<1>6. CASE m \in EnableCalls
  <2>1. n \in EnableCalls /\ n.at = at /\ Moved(m, n) BY <1>6 DEF EnableCalls
  <2>. QED BY <2>1 DEF Calls
<1>7. ASSUME NEW op \in {"updatePlugin", "updateService", "updateFleet"}, NEW ids,
             m \in UpdateRows(op, ids)
      PROVE  n \in UpdateRows(op, ids) /\ n.at = at /\ Moved(m, n)
  BY <1>7 DEF UpdateRows
<1>8. ASSUME NEW op \in {"destroyPlugin", "destroyService", "destroyFleet"}, NEW ids,
             m \in DestroyRows(op, ids)
      PROVE  n \in DestroyRows(op, ids) /\ n.at = at /\ Moved(m, n)
  BY <1>8 DEF DestroyRows
<1>. QED BY <1>1, <1>2, <1>3, <1>4, <1>5, <1>6, <1>7, <1>8 DEF Calls

(* Goto moves the call of one client.                                      *)
LEMMA GotoStep ==
  ASSUME TypeOK, NEW c \in Clients, calls[c] # NULL, NEW at \in Labels, Goto(c, at)
  PROVE  /\ calls' \in [Clients -> Calls \cup {NULL}]
         /\ calls'[c] # NULL /\ calls'[c].at = at /\ Moved(calls[c], calls'[c])
         /\ \A d \in Clients \ {c} : calls'[d] = calls[d]
<1>1. calls \in [Clients -> Calls \cup {NULL}] /\ calls[c] \in Calls
  BY DEF TypeOK
<1>2. calls' = [calls EXCEPT ![c] = [calls[c] EXCEPT !.at = at]]
  BY DEF Goto
<1>3. [calls[c] EXCEPT !.at = at] # NULL
  BY <1>1, MoveCall, NullAssumption
<1>. QED BY <1>1, <1>2, <1>3, MoveCall

(* Return ends it.                                                         *)
LEMMA ReturnStep ==
  ASSUME TypeOK, NEW c \in Clients, Return(c)
  PROVE  /\ calls' \in [Clients -> Calls \cup {NULL}]
         /\ calls'[c] = NULL
         /\ \A d \in Clients \ {c} : calls'[d] = calls[d]
BY DEF Return, TypeOK
-----------------------------------------------------------------------------
(* What a step may do that leaves the boards, their plugins, the injections,*)
(* the ports and the allow list alone: it moves or ends calls and records   *)
(* what happened.                                                           *)
StoryGrows ==
  /\ \A q \in Pairs : story.pairs[q] \subseteq story'.pairs[q]
  /\ story.clash \subseteq story'.clash
  /\ story.cut \subseteq story'.cut
  /\ story.stray \subseteq story'.stray

BoardsStay ==
  \A b \in Boards : Exists("boards", b)' =>
    Exists("boards", b) /\ rows'.boards[b].name = rows.boards[b].name

(* Rows of injections go only with their board, and a board is new only if *)
(* it was never plugged in.                                                *)
InjectionsStay ==
  /\ injections' \subseteq injections
  /\ \A b \in Boards : Exists("boards", b)' =>
       /\ Exists("boards", b) \/ installed[b] = {}
       /\ \A p \in Plugins : RowsOf(b, p)' = RowsOf(b, p)

NameKeeps(c) ==
  Busy(c, "createBoard", "insert")' =>
    Busy(c, "createBoard", "insert") /\ calls'[c].msg = calls[c].msg

(* A plugin call stays, has begun, has moved where the board has not        *)
(* answered, or ends there or leaves its mark.                              *)
Answered(c) ==
  /\ calls[c] # NULL /\ calls[c].op \in PluginOps
  /\ calls[c].at \in {"lookup", "record"}
PluginKeeps(c) ==
  \/ calls'[c] = calls[c]
  \/ /\ calls'[c] # NULL /\ calls'[c].op \in PluginOps =>
          calls[c] = NULL /\ calls'[c].at = "read" /\ calls'[c].row = NULL
     /\ Answered(c) /\ calls[c].result = "SUCCESS" => "lost" \in story'.pairs[Pair(c)]
  \/ /\ calls[c] # NULL /\ calls'[c] # NULL /\ Moved(calls[c], calls'[c])
     /\ calls[c].op \in PluginOps => /\ calls[c].at \notin {"read", "lookup", "record"}
                                     /\ calls'[c].at \notin {"read", "lookup", "record"}

(* A call that has made a board makes its location, or leaves it cut.       *)
LocateKeeps(c) ==
  Busy(c, "createBoard", "locate") =>
    calls[c].id \in story'.cut \/ (Busy(c, "createBoard", "locate")' /\ calls'[c].id = calls[c].id)

(* What a call has taken or listed stays with it.                           *)
PortKeeps(c) ==
  /\ calls'[c] # NULL /\ calls'[c].op = "destroyBoard" =>
       \/ calls'[c].list = {} /\ calls'[c].seen = {}
       \/ /\ calls[c] # NULL /\ calls[c].op = "destroyBoard" /\ calls'[c].board = calls[c].board
          /\ calls'[c].list = calls[c].list /\ calls'[c].seen = calls[c].seen
  /\ Taking(c)' => Taking(c) /\ calls'[c].port = calls[c].port /\ calls'[c].board = calls[c].board
  /\ Taking(c) => Taking(c)' \/ calls[c].port \in story'.stray
  /\ calls'[c] # NULL /\ calls'[c].op = "enableService" =>
       /\ calls'[c].at \in {"read", "allow", "execute", "invoke", "record", "orphan"}
       /\ calls'[c].at = "read" <=> calls'[c].port = NULL
       /\ calls'[c].at = "orphan" => calls'[c].port \in story'.stray

(* Names stay as unique as they were when no board is given one.            *)
LEMMA NameStays ==
  ASSUME NameInv, BoardsStay, StoryGrows, \A c \in Clients : NameKeeps(c)
  PROVE  NameInv'
<1>1. UniqueName'
  BY DEF NameInv, UniqueName, BoardsStay, StoryGrows
<1>2. \A n \in Names : ExistsByName(n)' => ExistsByName(n)
  BY DEF ExistsByName, ByName, Uuids, BoardsStay
<1>3. ASSUME NEW c \in Clients, Busy(c, "createBoard", "insert")'
      PROVE  calls'[c].msg.data.name \in story'.clash \cup {n \in Names : ~ExistsByName(n)'}
  <2>1. Busy(c, "createBoard", "insert") /\ calls'[c].msg = calls[c].msg
    BY <1>3 DEF NameKeeps
  <2>2. calls[c].msg.data.name \in story.clash \cup {n \in Names : ~ExistsByName(n)}
    BY <2>1 DEF NameInv
  <2>. QED BY <1>2, <2>1, <2>2 DEF StoryGrows
<1>. QED BY <1>1, <1>3 DEF NameInv

(* The pair of a plugin call.                                              *)
LEMMA PairOf ==
  ASSUME TypeOK, NEW c \in Clients, calls[c] # NULL, calls[c].op \in PluginOps
  PROVE  /\ calls[c].board \in Boards /\ calls[c].plugin \in Plugins
         /\ Pair(c) \in Pairs /\ Pair(c) = <<calls[c].board, calls[c].plugin>>
         /\ calls[c].row \in Nat \cup {NULL}
<1>1. calls[c] \in Calls
  BY DEF TypeOK
<1>2. calls[c] \in PluginCalls
  BY <1>1, CallKinds DEF PluginOps
<1>. QED BY <1>2 DEF PluginCalls, Pair, Pairs

(* What is said of injections stays when the rows and the memory of the     *)
(* boards do and every plugin call keeps or loses what it holds.            *)
LEMMA InjectionStays ==
  ASSUME TypeOK, InjectionInv, InjectionsStay, StoryGrows, installed' = installed, spent'.serial = spent.serial,
         \A c \in Clients : PluginKeeps(c)
  PROVE  InjectionInv'
<1>. USE DEF InjectionInv
<1>1. OneInjection'
  BY DEF OneInjection, StoryGrows, TypeOK, Injections, Pairs, InjectionsStay
<1>2. \A b \in Boards, p \in Plugins : RowsOf(b, p)' \subseteq RowsOf(b, p)
  BY DEF RowsOf, InjectionsStay
<1>3. ASSUME NEW c \in Clients, calls'[c] # NULL, calls'[c].op \in PluginOps,
             ~(calls[c] = NULL /\ calls'[c].at = "read" /\ calls'[c].row = NULL)
      PROVE  /\ calls[c] # NULL /\ calls[c].op = calls'[c].op
             /\ Pair(c)' = Pair(c) /\ Pair(c) \in Pairs
             /\ calls'[c].board = calls[c].board /\ calls'[c].plugin = calls[c].plugin
             /\ calls'[c].row = calls[c].row /\ calls'[c].result = calls[c].result
             /\ \/ calls'[c].at = calls[c].at
                \/ /\ calls[c].at \notin {"read", "lookup", "record"}
                   /\ calls'[c].at \notin {"read", "lookup", "record"}
  <2>1. CASE calls'[c] = calls[c]
    BY <1>3, <2>1, PairOf DEF Pair
  <2>2. CASE calls[c] # NULL /\ Moved(calls[c], calls'[c])
             /\ (calls[c].op \in PluginOps =>
                    /\ calls[c].at \notin {"read", "lookup", "record"}
                    /\ calls'[c].at \notin {"read", "lookup", "record"})
    BY <1>3, <2>2, PairOf DEF Moved, Pair, DeviceOps
  <2>. QED BY <1>3, <2>1, <2>2 DEF PluginKeeps
<1>4. RowInv'
  <2>. SUFFICES ASSUME NEW c \in Clients, calls'[c] # NULL, calls'[c].op \in PluginOps
                PROVE  HoldsRow(c)'
    BY DEF RowInv
  <2>1. CASE calls[c] = NULL /\ calls'[c].at = "read" /\ calls'[c].row = NULL
    BY <2>1 DEF HoldsRow
  <2>2. CASE ~(calls[c] = NULL /\ calls'[c].at = "read" /\ calls'[c].row = NULL)
    <3>1. HoldsRow(c)
      BY <1>3, <2>2 DEF RowInv
    <3>2. RowsOf(calls[c].board, calls[c].plugin)' \subseteq RowsOf(calls[c].board, calls[c].plugin)
      BY <1>2, <1>3, <2>2, PairOf
    <3>. QED BY <1>3, <2>2, <3>1, <3>2 DEF HoldsRow, StoryGrows, InjectionsStay
  <2>. QED BY <2>1, <2>2
<1>5. AnswerInv'
  <2>. SUFFICES ASSUME NEW c \in Clients, calls'[c] # NULL, calls'[c].op \in PluginOps
                PROVE  HoldsAnswer(c)'
    BY DEF AnswerInv
  <2>1. CASE calls[c] = NULL /\ calls'[c].at = "read" /\ calls'[c].row = NULL
    BY <2>1 DEF HoldsAnswer
  <2>2. CASE ~(calls[c] = NULL /\ calls'[c].at = "read" /\ calls'[c].row = NULL)
    <3>1. HoldsAnswer(c)
      BY <1>3, <2>2 DEF AnswerInv
    <3>2. IsThere(c)' = IsThere(c)
      BY <1>3, <2>2 DEF IsThere
    <3>. QED BY <1>3, <2>2, <3>1, <3>2 DEF HoldsAnswer, StoryGrows
  <2>. QED BY <2>1, <2>2
<1>6. CrossInv'
  <2>. SUFFICES ASSUME NEW c \in Clients, NEW d \in Clients,
                       calls'[c] # NULL, calls'[c].op = "injectPlugin", calls'[c].at # "read",
                       calls'[d] # NULL, calls'[d].op = "removePlugin", calls'[d].at # "read",
                       Pair(c)' = Pair(d)'
                PROVE  "crossed" \in story'.pairs[Pair(c)']
    BY DEF CrossInv
  <2>1. calls[c] # NULL /\ calls[c].op = "injectPlugin" /\ calls[c].at # "read"
    BY <1>3 DEF PluginOps
  <2>2. calls[d] # NULL /\ calls[d].op = "removePlugin" /\ calls[d].at # "read"
    BY <1>3 DEF PluginOps
  <2>3. Pair(c)' = Pair(c) /\ Pair(d)' = Pair(d) /\ Pair(c) \in Pairs
    BY <1>3 DEF PluginOps
  <2>. QED BY <2>1, <2>2, <2>3 DEF CrossInv, StoryGrows
<1>7. ASSUME NEW q \in Pairs, NEW op \in PluginOps, NEW at \in SUBSET {"lookup", "record"},
             Underway(q, op, at)
      PROVE  Underway(q, op, at)' \/ "lost" \in story'.pairs[q]
  <2>1. PICK c \in Clients : /\ calls[c] # NULL /\ calls[c].op = op /\ calls[c].at \in at
                             /\ calls[c].result = "SUCCESS" /\ Pair(c) = q
    BY <1>7 DEF Underway
  <2>2. Answered(c)
    BY <2>1 DEF Answered
  <2>3. CASE calls'[c] = calls[c]
    BY <2>1, <2>3 DEF Underway, Pair
  <2>. QED BY <2>1, <2>2, <2>3 DEF PluginKeeps, Answered
<1>8. AgreeInv'
  <2>. SUFFICES ASSUME NEW q \in Pairs PROVE PairAgrees(q)'
    BY DEF AgreeInv
  <2>1. PairAgrees(q)
    BY DEF AgreeInv
  <2>2. q[1] \in Boards /\ q[2] \in Plugins /\ RowsOf(q[1], q[2])' \subseteq RowsOf(q[1], q[2])
    BY <1>2 DEF Pairs
  <2>3. Exists("boards", q[1])' =>
          /\ Exists("boards", q[1]) \/ installed[q[1]] = {}
          /\ RowsOf(q[1], q[2])' = RowsOf(q[1], q[2])
    BY <2>2 DEF InjectionsStay
  <2>4. \A op \in PluginOps, at \in SUBSET {"lookup", "record"} :
          Underway(q, op, at) => Underway(q, op, at)' \/ "lost" \in story'.pairs[q]
    BY <1>7
  <2>5. /\ Underway(q, "injectPlugin", {"lookup", "record"}) =>
             Underway(q, "injectPlugin", {"lookup", "record"})' \/ "lost" \in story'.pairs[q]
        /\ Underway(q, "removePlugin", {"record"}) =>
             Underway(q, "removePlugin", {"record"})' \/ "lost" \in story'.pairs[q]
    BY <2>4 DEF PluginOps
  <2>. QED BY <2>1, <2>2, <2>3, <2>5 DEF PairAgrees, StoryGrows
<1>. QED BY <1>1, <1>4, <1>5, <1>6, <1>8

(* Boards have their locations when none is made and none is lost.          *)
LEMMA LocationStays ==
  ASSUME HasLocation, \A b \in Boards : Exists("boards", b)' => Exists("boards", b),
         StoryGrows, located' = located, \A c \in Clients : LocateKeeps(c)
  PROVE  HasLocation'
<1>. SUFFICES ASSUME NEW b \in Boards, Exists("boards", b)', b \notin located, b \notin story'.cut
              PROVE  \E c \in Clients : Busy(c, "createBoard", "locate")' /\ calls'[c].id = b
  BY DEF HasLocation
<1>1. PICK c \in Clients : Busy(c, "createBoard", "locate") /\ calls[c].id = b
  BY DEF HasLocation, StoryGrows
<1>. QED BY <1>1 DEF LocateKeeps

(* What is said of ports stays when no port and no entry moves.             *)
LEMMA PortsStay ==
  ASSUME PortInv, StoryGrows, UNCHANGED <<exposed, free, allowed>>, \A c \in Clients : PortKeeps(c)
  PROVE  PortInv'
<1>. USE DEF PortInv
<1>1. ClaimInv'
  BY DEF ClaimInv, PortKeeps
<1>2. ListInv'
  <2>. SUFFICES ASSUME NEW c \in Clients, calls'[c] # NULL, calls'[c].op = "destroyBoard",
                       ~(calls'[c].list = {} /\ calls'[c].seen = {})
                PROVE  /\ calls'[c].list \subseteq calls'[c].seen
                       /\ \A x \in calls'[c].seen :
                            /\ x.board = calls'[c].board
                            /\ x.port \notin free
                            /\ \A d \in Clients : Taking(d)' => calls'[d].port # x.port
                            /\ x \notin calls'[c].list => <<x.board, x.port>> \notin allowed
    BY DEF ListInv
  <2>. QED BY DEF ListInv, PortKeeps
<1>3. EntryInv'
  BY DEF EntryInv, PortKeeps, StoryGrows
<1>. QED BY <1>1, <1>2, <1>3

Keeps(c) == NameKeeps(c) /\ PluginKeeps(c) /\ LocateKeeps(c) /\ PortKeeps(c)

(* A call that stays as it is keeps what it claims.                         *)
LEMMA SameKeeps ==
  ASSUME PortInv, StoryGrows, NEW c \in Clients, calls'[c] = calls[c]
  PROVE  Keeps(c)
<1>1. NameKeeps(c)
  BY DEF NameKeeps, Busy
<1>2. PluginKeeps(c)
  BY DEF PluginKeeps
<1>3. LocateKeeps(c)
  BY DEF LocateKeeps, Busy
<1>4. PortKeeps(c)
  BY DEF PortKeeps, PortInv, ClaimInv, Taking, StoryGrows
<1>. QED BY <1>1, <1>2, <1>3, <1>4 DEF Keeps

(* The call of a client has begun.                                          *)
New(m) ==
  /\ m \in Calls /\ m.at \notin {"execute", "invoke", "orphan"}
  /\ m.op = "createBoard" => m.at = "check"
  /\ m.op \in PluginOps => m.at = "read" /\ m.row = NULL
  /\ m.op = "destroyBoard" => m.list = {} /\ m.seen = {}
  /\ m.op = "enableService" => m.at = "read" /\ m.port = NULL

(* A call that begins claims nothing.                                       *)
LEMMA NewKeeps ==
  ASSUME StoryGrows, NEW c \in Clients, calls[c] = NULL, NEW m, New(m), calls'[c] = m
  PROVE  Keeps(c)
<1>1. NameKeeps(c)
  BY DEF NameKeeps, Busy, New
<1>2. PluginKeeps(c)
  BY DEF PluginKeeps, New, Answered
<1>3. LocateKeeps(c)
  BY DEF LocateKeeps, Busy
<1>4. PortKeeps(c)
  BY DEF PortKeeps, Taking, New
<1>. QED BY <1>1, <1>2, <1>3, <1>4 DEF Keeps

(* It has ended, with what it leaves behind noted.                          *)
LEMMA EndKeeps ==
  ASSUME NEW c \in Clients, calls'[c] = NULL,
         Answered(c) /\ calls[c].result = "SUCCESS" => "lost" \in story'.pairs[Pair(c)],
         Busy(c, "createBoard", "locate") => calls[c].id \in story'.cut,
         Taking(c) => calls[c].port \in story'.stray
  PROVE  Keeps(c)
<1>1. NameKeeps(c)
  BY DEF NameKeeps, Busy
<1>2. PluginKeeps(c)
  BY DEF PluginKeeps
<1>3. LocateKeeps(c)
  BY DEF LocateKeeps
<1>4. PortKeeps(c)
  BY DEF PortKeeps, Taking
<1>. QED BY <1>1, <1>2, <1>3, <1>4 DEF Keeps

(* It goes on, and is neither an answered one of a plugin nor one that makes*)
(* a board.                                                                 *)
LEMMA MoveKeeps ==
  ASSUME PortInv, StoryGrows, NEW c \in Clients, calls[c] # NULL, calls'[c] # NULL,
         Moved(calls[c], calls'[c]),
         calls[c].op = "createBoard" => calls[c].at # "locate" /\ calls'[c].at \notin {"insert", "locate"},
         calls[c].op \in PluginOps => /\ calls[c].at \notin {"read", "lookup", "record"}
                                      /\ calls'[c].at \notin {"read", "lookup", "record"},
         calls[c].op = "enableService" =>
           /\ calls[c].at # "read" /\ calls'[c].at \in {"allow", "execute", "invoke", "record", "orphan"}
           /\ calls'[c].at = "orphan" => calls[c].port \in story'.stray
  PROVE  Keeps(c)
<1>1. NameKeeps(c)
  BY DEF NameKeeps, Busy, Moved
<1>2. PluginKeeps(c)
  BY DEF PluginKeeps
<1>3. LocateKeeps(c)
  BY DEF LocateKeeps, Busy
<1>4. PortKeeps(c)
  BY DEF PortKeeps, PortInv, ClaimInv, Taking, Moved, DeviceOps
<1>. QED BY <1>1, <1>2, <1>3, <1>4 DEF Keeps

(* What is noted of handlers that are cut off.                              *)
LEMMA CutFacts ==
  ASSUME TypeOK, NEW set \in SUBSET Clients, story' = Cut(set)
  PROVE  /\ story' \in Stories /\ StoryGrows
         /\ \A c \in set : /\ Answered(c) /\ calls[c].result = "SUCCESS" => "lost" \in story'.pairs[Pair(c)]
                           /\ Busy(c, "createBoard", "locate") => calls[c].id \in story'.cut
                           /\ calls[c] # NULL /\ calls[c].op = "enableService"
                              /\ calls[c].at \in {"allow", "execute", "invoke", "record"} =>
                                calls[c].port \in story'.stray
<1>. DEFINE Ends(op, at) == {c \in set : calls[c] # NULL /\ calls[c].op = op /\ calls[c].at \in at}
            undone  == {c \in UNION {Ends(op, {"lookup", "record"}) : op \in PluginOps} :
                          calls[c].result = "SUCCESS"}
            hanging == Ends("enableService", {"allow", "execute", "invoke", "record"})
            pairs == [q \in Pairs |-> story.pairs[q] \cup
                        IF \E c \in undone : q = <<calls[c].board, calls[c].plugin>> THEN {"lost"} ELSE {}]
            cut   == story.cut \cup {calls[c].id : c \in Ends("createBoard", {"locate"})}
            stray == story.stray \cup {calls[c].port : c \in hanging}
<1>1. story \in Stories
  BY DEF TypeOK
<1>2. story' = [story EXCEPT !.pairs = pairs, !.cut = cut, !.stray = stray]
  BY DEF Cut
<1>3. \A c \in Ends("createBoard", {"locate"}) : calls[c].id \in Boards \cup {NULL}
  <2>1. \A c \in Ends("createBoard", {"locate"}) : calls[c] \in CreateBoards
    BY CallKinds DEF TypeOK
  <2>. QED BY <2>1 DEF CreateBoards
<1>4. \A c \in hanging : calls[c].port \in Ports \cup {NULL}
  <2>1. \A c \in hanging : calls[c] \in EnableCalls
    BY CallKinds DEF TypeOK
  <2>. QED BY <2>1 DEF EnableCalls
<1>5. pairs \in [Pairs -> SUBSET Marks] /\ \A q \in Pairs : story.pairs[q] \subseteq pairs[q]
  BY <1>1 DEF Stories, Marks
<1>6. cut \in SUBSET (Boards \cup {NULL}) /\ stray \in SUBSET (Ports \cup {NULL})
  BY <1>1, <1>3, <1>4 DEF Stories
<1>7. \A c \in set : Answered(c) /\ calls[c].result = "SUCCESS" => "lost" \in pairs[Pair(c)]
  <2>. SUFFICES ASSUME NEW c \in set, Answered(c), calls[c].result = "SUCCESS"
                PROVE  "lost" \in pairs[Pair(c)]
    OBVIOUS
  <2>1. c \in undone
    BY DEF Answered
  <2>2. Pair(c) \in Pairs /\ Pair(c) = <<calls[c].board, calls[c].plugin>>
    BY PairOf DEF Answered
  <2>. HIDE DEF undone
  <2>. QED BY <2>1, <2>2
<1>8. \A c \in set : Busy(c, "createBoard", "locate") => calls[c].id \in cut
  BY DEF Busy
<1>9. \A c \in set : calls[c] # NULL /\ calls[c].op = "enableService"
                     /\ calls[c].at \in {"allow", "execute", "invoke", "record"} => calls[c].port \in stray
  OBVIOUS
<1>. HIDE DEF pairs, cut, stray
<1>10. story'.pairs = pairs /\ story'.cut = cut /\ story'.stray = stray /\ story'.clash = story.clash
  BY <1>1, <1>2 DEF Stories
<1>11. story' \in Stories
  BY <1>1, <1>2, <1>5, <1>6 DEF Stories
<1>. QED BY <1>5, <1>7, <1>8, <1>9, <1>10, <1>11 DEF StoryGrows, cut, stray

(* A handler that raises after it has begun to work.                        *)
LEMMA RaiseKeeps ==
  ASSUME TypeOK, PortInv, NEW c \in Clients, calls[c] # NULL, Raise(c),
         calls[c].at \in {"allow", "execute", "invoke", "record"}
  PROVE  /\ calls' \in [Clients -> Calls \cup {NULL}] /\ calls'[c] = NULL
         /\ story' \in Stories /\ StoryGrows
         /\ \A d \in Clients : Keeps(d)
<1>1. /\ calls' \in [Clients -> Calls \cup {NULL}] /\ calls'[c] = NULL
      /\ \A d \in Clients \ {c} : calls'[d] = calls[d]
  BY ReturnStep DEF Raise
<1>2. story' \in Stories /\ StoryGrows
  BY CutFacts DEF Raise
<1>3. /\ Answered(c) /\ calls[c].result = "SUCCESS" => "lost" \in story'.pairs[Pair(c)]
      /\ Busy(c, "createBoard", "locate") => calls[c].id \in story'.cut
      /\ calls[c].op = "enableService" /\ calls[c].at \in {"allow", "execute", "invoke", "record"} =>
           calls[c].port \in story'.stray
  BY CutFacts DEF Raise
<1>4. Taking(c) => calls[c].port \in story'.stray
  BY <1>2, <1>3 DEF Taking, PortInv, ClaimInv, StoryGrows
<1>5. Keeps(c)
  BY <1>1, <1>3, <1>4, EndKeeps
<1>. QED BY <1>1, <1>2, <1>5, SameKeeps
-----------------------------------------------------------------------------
(* The parts of the invariant that are about rows, calls and types.         *)
LEMMA CallsStay ==
  ASSUME CallInv, TypeOK, born.boards \subseteq born'.boards,
         \A c \in Clients :
           \/ calls'[c] = NULL \/ calls'[c] = calls[c]
           \/ /\ calls[c] # NULL /\ Moved(calls[c], calls'[c])
              /\ calls'[c].at \in {"execute", "invoke", "orphan"} => calls[c].op \in DeviceOps
              /\ calls[c].op = "createBoard" => calls'[c].at # "locate"
  PROVE  CallInv'
BY DEF CallInv, Moved, DeviceOps

(* Rows that stay are still of uuids that were given.                       *)
LEMMA TableStays ==
  ASSUME TableInv, TypeOK, UNCHANGED <<rows, born, injections, exposed, installed>>,
         spent'.serial = spent.serial
  PROVE  TableInv'
BY DEF TableInv, Exists, Uuids, Tables

(* A step that changes nothing but calls, and what is noted of them.        *)
LEMMA RowsStill ==
  ASSUME TypeOK, TableInv, UNCHANGED <<tables, device, mix>>,
         spent' \in [calls : Nat, toggles : Nat, crashes : Nat, serial : Nat],
         spent'.serial = spent.serial, calls' \in [Clients -> Calls \cup {NULL}], story' \in Stories
  PROVE  TypeOK' /\ TableInv' /\ BoardsStay /\ InjectionsStay
<1>1. UNCHANGED <<rows, located, injections, exposed, born, installed, allowed, free, mix>>
  BY DEF tables, device
<1>2. TypeOK'
  BY <1>1 DEF TypeOK
<1>3. TableInv'
  BY <1>1, TableStays
<1>4. BoardsStay
  BY <1>1 DEF BoardsStay, Exists
<1>5. InjectionsStay
  BY <1>1 DEF InjectionsStay, Exists, RowsOf
<1>. QED BY <1>2, <1>3, <1>4, <1>5

(* A step that changes nothing but calls, each of which keeps what it       *)
(* claims.                                                                  *)
LEMMA QuietStep ==
  ASSUME IInv, UNCHANGED <<tables, device, mix>>,
         spent' \in [calls : Nat, toggles : Nat, crashes : Nat, serial : Nat],
         spent'.serial = spent.serial, calls' \in [Clients -> Calls \cup {NULL}],
         story' \in Stories, StoryGrows, CallInv', \A c \in Clients : Keeps(c)
  PROVE  IInv'
<1>. USE DEF IInv
<1>1. UNCHANGED <<located, exposed, installed, allowed, free>>
  BY DEF tables, device
<1>2. TypeOK' /\ TableInv' /\ BoardsStay /\ InjectionsStay
  BY RowsStill
<1>3. \A c \in Clients : NameKeeps(c) /\ PluginKeeps(c) /\ LocateKeeps(c) /\ PortKeeps(c)
  BY DEF Keeps
<1>4. NameInv'
  BY <1>2, <1>3, NameStays
<1>5. InjectionInv'
  BY <1>1, <1>2, <1>3, InjectionStays
<1>6. HasLocation'
  BY <1>1, <1>2, <1>3, LocationStays DEF BoardsStay
<1>7. PortInv'
  BY <1>1, <1>3, PortsStay
<1>. QED BY <1>2, <1>4, <1>5, <1>6, <1>7

(* A controller sends a message: the call has begun.                        *)
LEMMA SendInv ==
  ASSUME IInv, NEW c \in Clients, calls[c] = NULL, NEW m, New(m), Send(c, m),
         m.op \in DeviceOps => m.board \in born.boards,
         m.op = "updateBoard" => m.msg.changes \subseteq m.asked
  PROVE  IInv'
<1>1. /\ calls' \in [Clients -> Calls \cup {NULL}] /\ calls'[c] = m
      /\ \A d \in Clients \ {c} : calls'[d] = calls[d]
  BY DEF Send, New, IInv, TypeOK
<1>2. spent' \in [calls : Nat, toggles : Nat, crashes : Nat, serial : Nat] /\ spent'.serial = spent.serial
  BY DEF Send, IInv, TypeOK
<1>3. UNCHANGED <<tables, device, mix>> /\ story' = story
  BY DEF Send
<1>4. story' \in Stories /\ StoryGrows
  BY <1>3 DEF IInv, TypeOK, StoryGrows
<1>5. \A d \in Clients : Keeps(d)
  BY <1>1, <1>4, NewKeeps, SameKeeps DEF IInv
<1>6. CallInv'
  BY <1>1, <1>3 DEF CallInv, IInv, tables, New
<1>. QED BY <1>1, <1>2, <1>3, <1>4, <1>5, <1>6, QuietStep

(* A call ends, and nothing else happens.                                   *)
LEMMA EndInv ==
  ASSUME IInv, NEW c \in Clients, calls[c] # NULL, Return(c),
         UNCHANGED <<tables, device, mix, spent, story>>,
         ~(calls[c].op \in PluginOps /\ calls[c].at \in {"lookup", "record"}),
         ~(calls[c].op = "createBoard" /\ calls[c].at = "locate"),
         calls[c].op = "enableService" => calls[c].at \in {"read", "orphan"}
  PROVE  IInv'
<1>1. /\ calls' \in [Clients -> Calls \cup {NULL}] /\ calls'[c] = NULL
      /\ \A d \in Clients \ {c} : calls'[d] = calls[d]
  BY ReturnStep DEF IInv
<1>2. story' \in Stories /\ StoryGrows /\ spent' \in [calls : Nat, toggles : Nat, crashes : Nat, serial : Nat]
  BY DEF IInv, TypeOK, StoryGrows
<1>3. Taking(c) => calls[c].port \in story'.stray
  BY DEF IInv, PortInv, ClaimInv, Taking
<1>4. \A d \in Clients : Keeps(d)
  BY <1>1, <1>2, <1>3, EndKeeps, SameKeeps DEF IInv, Answered, Busy
<1>5. CallInv'
  BY <1>1, CallsStay DEF IInv, tables
<1>. QED BY <1>1, <1>2, <1>4, <1>5, QuietStep

(* A handler that has begun to work raises.                                 *)
LEMMA RaiseInv ==
  ASSUME IInv, NEW c \in Clients, calls[c] # NULL, Raise(c),
         calls[c].at \in {"allow", "execute", "invoke", "record"},
         UNCHANGED <<tables, device, mix, spent>>
  PROVE  IInv'
<1>1. /\ calls' \in [Clients -> Calls \cup {NULL}] /\ calls'[c] = NULL
      /\ story' \in Stories /\ StoryGrows /\ \A d \in Clients : Keeps(d)
  BY RaiseKeeps DEF IInv
<1>2. \A d \in Clients \ {c} : calls'[d] = calls[d]
  BY ReturnStep DEF Raise, IInv
<1>3. CallInv'
  BY <1>1, <1>2, CallsStay DEF IInv, tables
<1>4. spent' \in [calls : Nat, toggles : Nat, crashes : Nat, serial : Nat]
  BY DEF IInv, TypeOK
<1>. QED BY <1>1, <1>3, <1>4, QuietStep

(* A call goes on where it holds nothing that matters.                      *)
LEMMA MoveInv ==
  ASSUME IInv, NEW c \in Clients, calls[c] # NULL, NEW at \in Labels, Goto(c, at),
         UNCHANGED <<tables, device, mix, spent>>, story' \in Stories, StoryGrows,
         at \in {"execute", "invoke", "orphan"} => calls[c].op \in DeviceOps,
         calls[c].op = "createBoard" => calls[c].at # "locate" /\ at \notin {"insert", "locate"},
         calls[c].op \in PluginOps => /\ calls[c].at \notin {"read", "lookup", "record"}
                                      /\ at \notin {"read", "lookup", "record"},
         calls[c].op = "enableService" =>
           /\ calls[c].at # "read" /\ at \in {"allow", "execute", "invoke", "record", "orphan"}
           /\ at = "orphan" => calls[c].port \in story'.stray
  PROVE  IInv'
<1>1. /\ calls' \in [Clients -> Calls \cup {NULL}]
      /\ calls'[c] # NULL /\ calls'[c].at = at /\ Moved(calls[c], calls'[c])
      /\ \A d \in Clients \ {c} : calls'[d] = calls[d]
  BY GotoStep DEF IInv
<1>2. Keeps(c)
  BY <1>1, MoveKeeps DEF IInv
<1>3. \A d \in Clients : Keeps(d)
  BY <1>1, <1>2, SameKeeps DEF IInv
<1>4. CallInv'
  BY <1>1, CallsStay DEF IInv, tables
<1>5. spent' \in [calls : Nat, toggles : Nat, crashes : Nat, serial : Nat]
  BY DEF IInv, TypeOK
<1>. QED BY <1>1, <1>3, <1>4, <1>5, QuietStep
-----------------------------------------------------------------------------
(* Objects                                                                   *)
(* An object made from values travels with all of them marked.              *)
LEMMA NewObjectIs ==
  ASSUME NEW v, v = [x \in DOMAIN v |-> v[x]]
  PROVE  NewObject(v) = Object(v, DOMAIN v)
<1>1. DOMAIN <<>> = {}
  OBVIOUS
<1>2. Over(v, <<>>) = v
  BY <1>1 DEF Over
<1>. QED BY <1>2 DEF NewObject, Update, Object

(* The object that a call brings has the columns of its message.            *)
LEMMA SentIs ==
  ASSUME NEW m, m.data = [x \in DOMAIN m.data |-> m.data[x]], m.changes \subseteq DOMAIN m.data
  PROVE  FromPrimitive(m) = Object(m.data, m.changes)
<1>. DEFINE d == m.data
<1>1. NewObject(d) = Object(d, DOMAIN d)
  BY NewObjectIs
<1>2. m.changes \cap DOMAIN d = m.changes
  OBVIOUS
<1>. QED BY <1>1, <1>2 DEF FromPrimitive, Object

(* Columns over a row give a row.                                           *)
LEMMA RowOver ==
  ASSUME NEW t \in Tables, NEW row \in Row(t), NEW S \in SUBSET Columns(t),
         NEW f, DOMAIN f = S,
         IF t = "boards"
         THEN /\ "name" \in S => f["name"] \in Names
              /\ "status" \in S => f["status"] \in Status
              /\ "fleet" \in S => f["fleet"] \in Fleets \cup {NULL}
         ELSE /\ "name" \in S => f["name"] \in Names
              /\ "extra" \in S => f["extra"] \in BOOLEAN
  PROVE  /\ Over(f, row) \in Row(t)
         /\ \A col \in Columns(t) : Over(f, row)[col] = IF col \in S THEN f[col] ELSE row[col]
<1>1. DOMAIN row = Columns(t)
  BY DEF Row, Columns
<1>. DEFINE g == Over(f, row)
<1>2. g = [x \in Columns(t) |-> IF x \in S THEN f[x] ELSE row[x]]
  BY <1>1 DEF Over
<1>3. CASE t = "boards"
  <2>1. g["name"] \in Names /\ g["status"] \in Status /\ g["fleet"] \in Fleets \cup {NULL}
    BY <1>2, <1>3 DEF Row, Columns
  <2>2. g = [name |-> g["name"], status |-> g["status"], fleet |-> g["fleet"]]
    BY <1>2, <1>3 DEF Columns
  <2>. HIDE DEF g
  <2>. QED BY <1>2, <1>3, <2>1, <2>2 DEF Row, g
<1>4. CASE t # "boards"
  <2>1. g["name"] \in Names /\ g["extra"] \in BOOLEAN
    BY <1>2, <1>4 DEF Row, Columns
  <2>2. g = [name |-> g["name"], extra |-> g["extra"]]
    BY <1>2, <1>4 DEF Columns
  <2>. HIDE DEF g
  <2>. QED BY <1>2, <1>4, <2>1, <2>2 DEF Row, g
<1>. QED BY <1>3, <1>4

(* What save() leaves of a row is a row, with the changed columns of the    *)
(* object and the others as they were.                                      *)
LEMMA SavedIs ==
  ASSUME NEW t \in Tables, NEW row \in Row(t), NEW vals \in Row(t), NEW S \in SUBSET Columns(t)
  PROVE  /\ Saved(row, Object(vals, S)) \in Row(t)
         /\ \A col \in Columns(t) :
              Saved(row, Object(vals, S))[col] = IF col \in S THEN vals[col] ELSE row[col]
<1>. DEFINE f == [x \in S |-> vals[x]]
<1>1. IF t = "boards"
      THEN /\ "name" \in S => f["name"] \in Names
           /\ "status" \in S => f["status"] \in Status
           /\ "fleet" \in S => f["fleet"] \in Fleets \cup {NULL}
      ELSE /\ "name" \in S => f["name"] \in Names
           /\ "extra" \in S => f["extra"] \in BOOLEAN
  BY DEF Row
<1>2. DOMAIN f = S /\ \A x \in S : f[x] = vals[x]
  OBVIOUS
<1>3. Saved(row, Object(vals, S)) = Over(f, row)
  BY DEF Saved, Changes, Object
<1>. HIDE DEF f
<1>4. /\ Over(f, row) \in Row(t)
      /\ \A col \in Columns(t) : Over(f, row)[col] = IF col \in S THEN f[col] ELSE row[col]
  BY <1>1, <1>2, RowOver
<1>. QED BY <1>2, <1>3, <1>4

(* The row a controller has read, with the columns of the body.             *)
LEMMA PatchedIs ==
  ASSUME TypeOK, NEW t \in Tables, NEW id \in Uuids(t), Exists(t, id), NEW body \in Assignments(t)
  PROVE  /\ ToPrimitive(Patched(t, id, body)).data \in Row(t)
         /\ ToPrimitive(Patched(t, id, body)).changes = DOMAIN body
         /\ DOMAIN body \subseteq Columns(t)
         /\ ToPrimitive(Patched(t, id, body)) \in [data : Row(t), changes : SUBSET Columns(t)]
<1>1. rows[t][id] \in Row(t)
  BY DEF TypeOK, Exists
<1>. DEFINE row == rows[t][id]
<1>2. row = [x \in DOMAIN row |-> row[x]]
  BY <1>1 DEF Row
<1>. HIDE DEF row
<1>3. FromDbObject(row) = Object(row, {})
  BY <1>2, NewObjectIs DEF FromDbObject, ResetChanges, Object
<1>4. Patched(t, id, body) = Object(Over(body, row), DOMAIN body)
  BY <1>3 DEF Patched, Update, Object, row
<1>5. CASE t = "boards"
  <2>1. CASE body \in [{"name"} -> Names]
    <3>1. DOMAIN body = {"name"} /\ body["name"] \in Names
      BY <2>1
    <3>2. Over(body, row) \in Row(t) /\ DOMAIN body \subseteq Columns(t)
      BY <1>1, <1>5, <3>1, RowOver DEF row, Columns
    <3>. QED BY <1>4, <3>1, <3>2 DEF ToPrimitive, Object
  <2>2. CASE body \in [{"fleet"} -> Fleets \cup {NULL}]
    <3>1. DOMAIN body = {"fleet"} /\ body["fleet"] \in Fleets \cup {NULL}
      BY <2>2
    <3>2. Over(body, row) \in Row(t) /\ DOMAIN body \subseteq Columns(t)
      BY <1>1, <1>5, <3>1, RowOver DEF row, Columns
    <3>. QED BY <1>4, <3>1, <3>2 DEF ToPrimitive, Object
  <2>. QED BY <1>5, <2>1, <2>2 DEF Assignments
<1>6. CASE t # "boards"
  <2>1. CASE body \in [{"name"} -> Names]
    <3>1. DOMAIN body = {"name"} /\ body["name"] \in Names
      BY <2>1
    <3>2. Over(body, row) \in Row(t) /\ DOMAIN body \subseteq Columns(t)
      BY <1>1, <1>6, <3>1, RowOver DEF row, Columns
    <3>. QED BY <1>4, <3>1, <3>2 DEF ToPrimitive, Object
  <2>2. CASE body \in [{"extra"} -> BOOLEAN]
    <3>1. DOMAIN body = {"extra"} /\ body["extra"] \in BOOLEAN
      BY <2>2
    <3>2. Over(body, row) \in Row(t) /\ DOMAIN body \subseteq Columns(t)
      BY <1>1, <1>6, <3>1, RowOver DEF row, Columns
    <3>. QED BY <1>4, <3>1, <3>2 DEF ToPrimitive, Object
  <2>. QED BY <1>6, <2>1, <2>2 DEF Assignments
<1>. QED BY <1>5, <1>6
-----------------------------------------------------------------------------
(* Controllers                                                               *)
(* What a controller has read exists.                                       *)
LEMMA ReadExists ==
  /\ \A b \in Boards : BoardOf(b) => Exists("boards", b)
  /\ \A p \in Plugins : PluginOf(p) => Exists("plugins", p)
  /\ \A f \in Fleets : FleetOf(f) => Exists("fleets", f)
  /\ \A s \in Services : ServiceOf(s) => Exists("services", s)
<1>1. \A t, i : \A id \in ByUuid(t, i) \cup ByName(t, i) : Exists(t, id)
  BY DEF ByUuid, ByName
<1>2. ASSUME NEW b \in Boards, BoardOf(b) PROVE Exists("boards", b)
  BY <1>1, <1>2 DEF BoardOf, GetRpcBoard
<1>3. ASSUME NEW p \in Plugins, PluginOf(p) PROVE Exists("plugins", p)
  BY <1>1, <1>3 DEF PluginOf, GetRpcPlugin
<1>4. ASSUME NEW f \in Fleets, FleetOf(f) PROVE Exists("fleets", f)
  BY <1>1, <1>4 DEF FleetOf, GetRpcFleet
<1>5. ASSUME NEW s \in Services, ServiceOf(s) PROVE Exists("services", s)
  BY <1>1, <1>5 DEF ServiceOf, GetRpcService
<1>. QED BY <1>2, <1>3, <1>4, <1>5

(* A controller that found a board found one that was given.                *)
LEMMA BoardGiven ==
  ASSUME TableInv, NEW b \in Boards, BoardOf(b)
  PROVE  b \in born.boards
BY ReadExists DEF TableInv, Tables, Uuids

(* Messages that create a row, and messages that change one.                *)
LEMMA CreateMessages ==
  ASSUME NEW n \in Names
  PROVE  /\ \A f \in Fleets \cup {NULL} : New(RpcCreateBoard(NewObject([name |-> n, fleet |-> f])))
         /\ New(RpcCreatePlugin(NewObject([name |-> n, extra |-> FALSE])))
         /\ New(RpcCreateService(NewObject([name |-> n, extra |-> FALSE])))
         /\ New(RpcCreateFleet(NewObject([name |-> n, extra |-> FALSE])))
<1>1. ASSUME NEW f \in Fleets \cup {NULL}
      PROVE  New(RpcCreateBoard(NewObject([name |-> n, fleet |-> f])))
  <2>1. NewObject([name |-> n, fleet |-> f]) = Object([name |-> n, fleet |-> f], {"name", "fleet"})
    BY NewObjectIs
  <2>2. RpcCreateBoard(NewObject([name |-> n, fleet |-> f])) \in CreateBoards
    BY <2>1 DEF RpcCreateBoard, ToPrimitive, Object, CreateBoards, Labels
  <2>. QED BY <2>2 DEF New, Calls, RpcCreateBoard, PluginOps
<1>. DEFINE m == ToPrimitive(NewObject([name |-> n, extra |-> FALSE]))
<1>2. m \in [data : Row("plugins"), changes : {Columns("plugins")}]
  <2>1. NewObject([name |-> n, extra |-> FALSE]) = Object([name |-> n, extra |-> FALSE], {"name", "extra"})
    BY NewObjectIs
  <2>. DEFINE r == [name |-> n, extra |-> FALSE]
  <2>2. r \in Row("plugins")
    BY DEF Row
  <2>. HIDE DEF r
  <2>3. ToPrimitive(Object(r, {"name", "extra"})) = [data |-> r, changes |-> {"name", "extra"}]
    BY DEF ToPrimitive, Object
  <2>4. m = [data |-> r, changes |-> {"name", "extra"}]
    BY <2>1, <2>3 DEF m, r
  <2>5. Columns("plugins") = {"name", "extra"}
    BY DEF Columns
  <2>. HIDE DEF m
  <2>. QED BY <2>2, <2>4, <2>5
<1>. HIDE DEF m
<1>3. ASSUME NEW op \in {"createPlugin", "createService", "createFleet"}
      PROVE  New([op |-> op, at |-> "insert", msg |-> m])
  <2>1. [op |-> op, at |-> "insert", msg |-> m] \in CreateRows
    BY <1>2 DEF CreateRows, Labels
  <2>. QED BY <2>1 DEF New, Calls, PluginOps
<1>. QED BY <1>1, <1>3 DEF RpcCreatePlugin, RpcCreateService, RpcCreateFleet, m

(* The messages of the PATCH controllers are new calls.                     *)
LEMMA PatchMessages ==
  ASSUME NEW m \in [data : Row("plugins"), changes : SUBSET Columns("plugins")]
  PROVE  /\ \A id \in Plugins : New([op |-> "updatePlugin", at |-> "save", msg |-> m, id |-> id])
         /\ \A id \in Services : New([op |-> "updateService", at |-> "save", msg |-> m, id |-> id])
         /\ \A id \in Fleets : New([op |-> "updateFleet", at |-> "save", msg |-> m, id |-> id])
<1>1. ASSUME NEW op, NEW ids, NEW id \in ids, UpdateRows(op, ids) \subseteq Calls,
             op \notin PluginOps \cup {"createBoard", "destroyBoard", "enableService"}
      PROVE  New([op |-> op, at |-> "save", msg |-> m, id |-> id])
  <2>1. [op |-> op, at |-> "save", msg |-> m, id |-> id] \in UpdateRows(op, ids)
    BY DEF UpdateRows, Labels
  <2>. QED BY <1>1, <2>1 DEF New
<1>2. /\ UpdateRows("updatePlugin", Plugins) \subseteq Calls
      /\ UpdateRows("updateService", Services) \subseteq Calls
      /\ UpdateRows("updateFleet", Fleets) \subseteq Calls
  BY DEF Calls
<1>. QED BY <1>1, <1>2 DEF PluginOps

(* The messages of the DELETE controllers are new calls.                    *)
LEMMA DestroyMessages ==
  /\ \A id \in Plugins : New(RpcDestroyPlugin(id))
  /\ \A id \in Services : New(RpcDestroyService(id))
  /\ \A id \in Fleets : New(RpcDestroyFleet(id))
<1>1. ASSUME NEW op, NEW ids, NEW id \in ids, DestroyRows(op, ids) \subseteq Calls,
             op \notin PluginOps \cup {"createBoard", "destroyBoard", "enableService"}
      PROVE  New([op |-> op, at |-> "destroy", id |-> id])
  <2>1. [op |-> op, at |-> "destroy", id |-> id] \in DestroyRows(op, ids)
    BY DEF DestroyRows, Labels
  <2>. QED BY <1>1, <2>1 DEF New
<1>2. /\ DestroyRows("destroyPlugin", Plugins) \subseteq Calls
      /\ DestroyRows("destroyService", Services) \subseteq Calls
      /\ DestroyRows("destroyFleet", Fleets) \subseteq Calls
  BY DEF Calls
<1>. QED BY <1>1, <1>2 DEF PluginOps, RpcDestroyPlugin, RpcDestroyService, RpcDestroyFleet

(* The messages of the controllers of boards' plugins and services are.     *)
LEMMA DeviceMessages ==
  ASSUME NEW b \in Boards
  PROVE  /\ New(RpcDestroyBoard(b)) /\ RpcDestroyBoard(b).board = b
         /\ \A p \in Plugins : /\ New(RpcInjectPlugin(p, b)) /\ RpcInjectPlugin(p, b).board = b
                               /\ New(RpcRemovePlugin(p, b)) /\ RpcRemovePlugin(p, b).board = b
                               /\ New(RpcActionPlugin(p, b)) /\ RpcActionPlugin(p, b).board = b
         /\ \A s \in Services : New(RpcActionService(s, b)) /\ RpcActionService(s, b).board = b
<1>1. New(RpcDestroyBoard(b)) /\ RpcDestroyBoard(b).board = b
  BY DEF RpcDestroyBoard, New, Calls, DestroyBoards, Labels, PluginOps
<1>2. ASSUME NEW p \in Plugins, NEW op \in PluginOps \cup {"actionPlugin"}
      PROVE  New([RpcInjectPlugin(p, b) EXCEPT !.op = op])
  <2>1. [RpcInjectPlugin(p, b) EXCEPT !.op = op] \in PluginCalls
    BY DEF RpcInjectPlugin, PluginCalls, Labels, PluginOps
  <2>. QED BY <2>1 DEF New, Calls, RpcInjectPlugin, PluginOps
<1>3. ASSUME NEW p \in Plugins
      PROVE  /\ New(RpcInjectPlugin(p, b)) /\ RpcInjectPlugin(p, b).board = b
             /\ New(RpcRemovePlugin(p, b)) /\ RpcRemovePlugin(p, b).board = b
             /\ New(RpcActionPlugin(p, b)) /\ RpcActionPlugin(p, b).board = b
  <2>1. [RpcInjectPlugin(p, b) EXCEPT !.op = "injectPlugin"] = RpcInjectPlugin(p, b)
    BY DEF RpcInjectPlugin
  <2>2. New(RpcInjectPlugin(p, b)) /\ New(RpcRemovePlugin(p, b)) /\ New(RpcActionPlugin(p, b))
    BY <1>2, <2>1 DEF PluginOps, RpcRemovePlugin, RpcActionPlugin
  <2>. QED BY <2>2 DEF RpcInjectPlugin, RpcRemovePlugin, RpcActionPlugin
<1>4. ASSUME NEW s \in Services
      PROVE  New(RpcActionService(s, b)) /\ RpcActionService(s, b).board = b
  BY DEF RpcActionService, New, Calls, EnableCalls, Labels, PluginOps
<1>. QED BY <1>1, <1>3, <1>4

(* A PATCH of a board asks for the columns of its body.                     *)
LEMMA PatchBoardInv ==
  ASSUME IInv, NEW c \in Clients, PatchBoard(c)
  PROVE  IInv'
<1>1. PICK b \in Boards, body \in Assignments("boards") :
        BoardOf(b) /\ Send(c, Over([asked |-> DOMAIN body], RpcUpdateBoard(b, Patched("boards", b, body))))
  BY DEF PatchBoard
<1>. DEFINE msg == ToPrimitive(Patched("boards", b, body))
            m   == [op |-> "updateBoard", at |-> "save", msg |-> msg, id |-> b, asked |-> DOMAIN body]
<1>2. /\ msg \in [data : Row("boards"), changes : SUBSET Columns("boards")]
      /\ msg.changes = DOMAIN body /\ DOMAIN body \subseteq Columns("boards")
  BY <1>1, PatchedIs, ReadExists DEF IInv, Tables, Uuids
<1>. HIDE DEF msg
<1>3. Over([asked |-> DOMAIN body], [op |-> "updateBoard", at |-> "save", msg |-> msg, id |-> b]) = m
  <2>. DEFINE f == [asked |-> DOMAIN body]
              g == [op |-> "updateBoard", at |-> "save", msg |-> msg, id |-> b]
  <2>1. DOMAIN f = {"asked"} /\ DOMAIN g = {"op", "at", "msg", "id"}
    OBVIOUS
  <2>2. DOMAIN m = {"asked", "op", "at", "msg", "id"}
    OBVIOUS
  <2>3. \A x \in DOMAIN m : m[x] = IF x \in DOMAIN f THEN f[x] ELSE g[x]
    BY <2>1
  <2>4. m = [x \in DOMAIN m |-> m[x]]
    OBVIOUS
  <2>. QED BY <2>1, <2>2, <2>3, <2>4 DEF Over
<1>4. m \in UpdateBoards
  BY <1>2 DEF UpdateBoards, Labels
<1>5. New(m) /\ m.op = "updateBoard" /\ m.msg.changes = m.asked
  BY <1>2, <1>4 DEF New, Calls, PluginOps
<1>6. Send(c, m)
  BY <1>1, <1>3 DEF RpcUpdateBoard, msg
<1>7. m.op \notin DeviceOps
  BY DEF DeviceOps, PluginOps
<1>. HIDE DEF m
<1>. QED BY <1>5, <1>6, <1>7, SendInv DEF PatchBoard, Idle

(* A controller sends its message.                                          *)
LEMMA ControllerInv ==
  ASSUME IInv, NEW c \in Clients, Controller(c)
  PROVE  IInv'
<1>. DEFINE Given(m) == /\ New(m)
                        /\ m.op \in DeviceOps => m.board \in born.boards
                        /\ m.op # "updateBoard"
<1>1. ASSUME calls[c] = NULL, NEW m, Given(m), Send(c, m) PROVE IInv'
  BY <1>1, SendInv
<1>2. \A b \in Boards : BoardOf(b) => b \in born.boards
  BY BoardGiven DEF IInv
<1>. USE DEF Idle
<1>3. CASE PostBoard(c)
  <2>1. PICK n \in Names, f \in Fleets \cup {NULL} : Send(c, RpcCreateBoard(NewObject([name |-> n, fleet |-> f])))
    BY <1>3 DEF PostBoard
  <2>2. Given(RpcCreateBoard(NewObject([name |-> n, fleet |-> f])))
    BY CreateMessages DEF RpcCreateBoard, DeviceOps, PluginOps
  <2>. QED BY <1>1, <1>3, <2>1, <2>2 DEF PostBoard
<1>4. CASE PatchBoard(c) BY <1>4, PatchBoardInv
<1>5. CASE DeleteBoard(c)
  <2>1. PICK b \in Boards : BoardOf(b) /\ Send(c, RpcDestroyBoard(b))
    BY <1>5 DEF DeleteBoard
  <2>2. Given(RpcDestroyBoard(b))
    BY <1>2, <2>1, DeviceMessages DEF RpcDestroyBoard
  <2>. QED BY <1>1, <1>5, <2>1, <2>2 DEF DeleteBoard
<1>6. CASE PostPlugin(c)
  <2>1. PICK n \in Names : Send(c, RpcCreatePlugin(NewObject([name |-> n, extra |-> FALSE])))
    BY <1>6 DEF PostPlugin
  <2>2. Given(RpcCreatePlugin(NewObject([name |-> n, extra |-> FALSE])))
    BY CreateMessages DEF RpcCreatePlugin, DeviceOps, PluginOps
  <2>. QED BY <1>1, <1>6, <2>1, <2>2 DEF PostPlugin
<1>7. CASE PostService(c)
  <2>1. PICK n \in Names : Send(c, RpcCreateService(NewObject([name |-> n, extra |-> FALSE])))
    BY <1>7 DEF PostService
  <2>2. Given(RpcCreateService(NewObject([name |-> n, extra |-> FALSE])))
    BY CreateMessages DEF RpcCreateService, DeviceOps, PluginOps
  <2>. QED BY <1>1, <1>7, <2>1, <2>2 DEF PostService
<1>8. CASE PostFleet(c)
  <2>1. PICK n \in Names : Send(c, RpcCreateFleet(NewObject([name |-> n, extra |-> FALSE])))
    BY <1>8 DEF PostFleet
  <2>2. Given(RpcCreateFleet(NewObject([name |-> n, extra |-> FALSE])))
    BY CreateMessages DEF RpcCreateFleet, DeviceOps, PluginOps
  <2>. QED BY <1>1, <1>8, <2>1, <2>2 DEF PostFleet
<1>9. ASSUME NEW t \in Tables, t # "boards", NEW id \in Uuids(t), Exists(t, id), NEW body \in Assignments(t)
      PROVE  ToPrimitive(Patched(t, id, body)) \in [data : Row("plugins"), changes : SUBSET Columns("plugins")]
  <2>1. Row(t) = Row("plugins") /\ Columns(t) = Columns("plugins")
    BY <1>9 DEF Row, Columns
  <2>. QED BY <1>9, <2>1, PatchedIs DEF IInv
<1>10. CASE PatchPlugin(c)
  <2>1. PICK p \in Plugins, body \in Assignments("plugins") :
          PluginOf(p) /\ Send(c, RpcUpdatePlugin(p, Patched("plugins", p, body)))
    BY <1>10 DEF PatchPlugin
  <2>2. ToPrimitive(Patched("plugins", p, body)) \in [data : Row("plugins"), changes : SUBSET Columns("plugins")]
    BY <1>9, <2>1, ReadExists DEF Tables, Uuids
  <2>3. Given(RpcUpdatePlugin(p, Patched("plugins", p, body)))
    BY <2>2, PatchMessages DEF RpcUpdatePlugin, DeviceOps, PluginOps
  <2>. QED BY <1>1, <1>10, <2>1, <2>3 DEF PatchPlugin
<1>11. CASE PatchService(c)
  <2>1. PICK s \in Services, body \in Assignments("services") :
          ServiceOf(s) /\ Send(c, RpcUpdateService(s, Patched("services", s, body)))
    BY <1>11 DEF PatchService
  <2>2. ToPrimitive(Patched("services", s, body)) \in [data : Row("plugins"), changes : SUBSET Columns("plugins")]
    BY <1>9, <2>1, ReadExists DEF Tables, Uuids
  <2>3. Given(RpcUpdateService(s, Patched("services", s, body)))
    BY <2>2, PatchMessages DEF RpcUpdateService, DeviceOps, PluginOps
  <2>. QED BY <1>1, <1>11, <2>1, <2>3 DEF PatchService
<1>12. CASE PatchFleet(c)
  <2>1. PICK f \in Fleets, body \in Assignments("fleets") :
          FleetOf(f) /\ Send(c, RpcUpdateFleet(f, Patched("fleets", f, body)))
    BY <1>12 DEF PatchFleet
  <2>2. ToPrimitive(Patched("fleets", f, body)) \in [data : Row("plugins"), changes : SUBSET Columns("plugins")]
    BY <1>9, <2>1, ReadExists DEF Tables, Uuids
  <2>3. Given(RpcUpdateFleet(f, Patched("fleets", f, body)))
    BY <2>2, PatchMessages DEF RpcUpdateFleet, DeviceOps, PluginOps
  <2>. QED BY <1>1, <1>12, <2>1, <2>3 DEF PatchFleet
<1>13. CASE DeletePlugin(c)
  <2>1. PICK p \in Plugins : Send(c, RpcDestroyPlugin(p))
    BY <1>13 DEF DeletePlugin
  <2>2. Given(RpcDestroyPlugin(p))
    BY DestroyMessages DEF RpcDestroyPlugin, DeviceOps, PluginOps
  <2>. QED BY <1>1, <1>13, <2>1, <2>2 DEF DeletePlugin
<1>14. CASE DeleteService(c)
  <2>1. PICK s \in Services : Send(c, RpcDestroyService(s))
    BY <1>14 DEF DeleteService
  <2>2. Given(RpcDestroyService(s))
    BY DestroyMessages DEF RpcDestroyService, DeviceOps, PluginOps
  <2>. QED BY <1>1, <1>14, <2>1, <2>2 DEF DeleteService
<1>15. CASE DeleteFleet(c)
  <2>1. PICK f \in Fleets : Send(c, RpcDestroyFleet(f))
    BY <1>15 DEF DeleteFleet
  <2>2. Given(RpcDestroyFleet(f))
    BY DestroyMessages DEF RpcDestroyFleet, DeviceOps, PluginOps
  <2>. QED BY <1>1, <1>15, <2>1, <2>2 DEF DeleteFleet
<1>16. CASE PutInjection(c)
  <2>1. PICK b \in Boards, p \in Plugins : BoardOf(b) /\ Send(c, RpcInjectPlugin(p, b))
    BY <1>16 DEF PutInjection
  <2>2. Given(RpcInjectPlugin(p, b))
    BY <1>2, <2>1, DeviceMessages DEF RpcInjectPlugin
  <2>. QED BY <1>1, <1>16, <2>1, <2>2 DEF PutInjection
<1>17. CASE DeleteInjection(c)
  <2>1. PICK b \in Boards, p \in Plugins : BoardOf(b) /\ Send(c, RpcRemovePlugin(p, b))
    BY <1>17 DEF DeleteInjection
  <2>2. Given(RpcRemovePlugin(p, b))
    BY <1>2, <2>1, DeviceMessages DEF RpcRemovePlugin, RpcInjectPlugin
  <2>. QED BY <1>1, <1>17, <2>1, <2>2 DEF DeleteInjection
<1>18. CASE PostPluginAction(c)
  <2>1. PICK b \in Boards, p \in Plugins : BoardOf(b) /\ Send(c, RpcActionPlugin(p, b))
    BY <1>18 DEF PostPluginAction
  <2>2. Given(RpcActionPlugin(p, b))
    BY <1>2, <2>1, DeviceMessages DEF RpcActionPlugin, RpcInjectPlugin
  <2>. QED BY <1>1, <1>18, <2>1, <2>2 DEF PostPluginAction
<1>19. CASE PostServiceAction(c)
  <2>1. PICK b \in Boards, s \in Services : BoardOf(b) /\ Send(c, RpcActionService(s, b))
    BY <1>19 DEF PostServiceAction
  <2>2. Given(RpcActionService(s, b))
    BY <1>2, <2>1, DeviceMessages DEF RpcActionService
  <2>. QED BY <1>1, <1>19, <2>1, <2>2 DEF PostServiceAction
<1>. QED BY <1>3, <1>4, <1>5, <1>6, <1>7, <1>8, <1>10, <1>11, <1>12, <1>13, <1>14, <1>15, <1>16, <1>17,
            <1>18, <1>19 DEF Controller
-----------------------------------------------------------------------------
(* Steps of handlers that move or end the call only                          *)
LEMMA ReadBoardInv ==
  ASSUME IInv, NEW c \in Clients, ReadBoard(c)
  PROVE  IInv'
<1>1. calls[c] # NULL /\ calls[c].op = "destroyBoard" /\ UNCHANGED <<tables, device, mix, spent, story>>
  BY DEF ReadBoard, Busy
<1>2. CASE Return(c)
  BY <1>1, <1>2, EndInv DEF PluginOps
<1>3. CASE \E at \in {"execute", "list"} : Goto(c, at)
  <2>1. PICK at \in {"execute", "list"} : Goto(c, at)
    BY <1>3
  <2>. QED BY <1>1, <2>1, MoveInv DEF PluginOps, DeviceOps, Labels, StoryGrows, IInv, TypeOK
<1>. QED BY <1>2, <1>3 DEF ReadBoard

(* action_plugin crosses nothing: it begins or ends.                        *)
LEMMA ActionPluginInv ==
  ASSUME IInv, NEW c \in Clients, ActionPlugin(c)
  PROVE  IInv'
<1>1. calls[c] # NULL /\ calls[c].op = "actionPlugin" /\ UNCHANGED <<tables, device, mix, spent>>
  BY DEF ActionPlugin, ReadPlugin, Busy
<1>2. ~Crosses(c)
  BY <1>1 DEF Crosses, PluginOps
<1>3. UNCHANGED story
  BY <1>2 DEF ActionPlugin, ReadPlugin
<1>4. CASE Return(c)
  BY <1>1, <1>3, <1>4, EndInv DEF PluginOps
<1>5. CASE Goto(c, "execute")
  BY <1>1, <1>3, <1>5, MoveInv DEF PluginOps, DeviceOps, Labels, StoryGrows, IInv, TypeOK
<1>. QED BY <1>4, <1>5 DEF ActionPlugin, ReadPlugin

(* The call goes out if the board is online, and raises if not.             *)
LEMMA ExecuteOnBoardInv ==
  ASSUME IInv, NEW c \in Clients, ExecuteOnBoard(c)
  PROVE  IInv'
<1>1. calls[c] # NULL /\ calls[c].at = "execute" /\ UNCHANGED <<tables, device, mix, spent>>
      /\ calls[c].op \in DeviceOps
  BY DEF ExecuteOnBoard, IInv, CallInv
<1>2. CASE Goto(c, "invoke") /\ UNCHANGED story
  <2>1. story' \in Stories /\ StoryGrows
    BY <1>2 DEF StoryGrows, IInv, TypeOK
  <2>. QED BY <1>1, <1>2, <2>1, MoveInv DEF Labels
<1>3. CASE Raise(c)
  BY <1>1, <1>3, RaiseInv
<1>. QED BY <1>2, <1>3 DEF ExecuteOnBoard

(* A call whose answer does not come may still reach the board.             *)
LEMMA CallTimesOutInv ==
  ASSUME IInv, NEW c \in Clients, CallTimesOut(c)
  PROVE  IInv'
<1>1. calls[c] # NULL /\ calls[c].at = "invoke" /\ UNCHANGED <<tables, device, mix, spent>>
      /\ calls[c].op \in DeviceOps /\ Goto(c, "orphan") /\ story' = Cut({c})
  BY DEF CallTimesOut, IInv, CallInv
<1>2. /\ story' \in Stories /\ StoryGrows
      /\ calls[c].op = "enableService" => calls[c].port \in story'.stray
  BY <1>1, CutFacts DEF IInv
<1>. QED BY <1>1, <1>2, MoveInv DEF Labels

(* It does not reach the board.                                             *)
LEMMA OrphanIsLostInv ==
  ASSUME IInv, NEW c \in Clients, OrphanIsLost(c)
  PROVE  IInv'
BY EndInv DEF OrphanIsLost

(* The process of the conductor is killed.                                  *)
LEMMA ConductorCrashesInv ==
  ASSUME IInv, ConductorCrashes
  PROVE  IInv'
<1>1. UNCHANGED <<tables, device, mix>> /\ story' = Cut(Clients) /\ spent' = [spent EXCEPT !.crashes = @ + 1]
  BY DEF ConductorCrashes
<1>2. spent' \in [calls : Nat, toggles : Nat, crashes : Nat, serial : Nat] /\ spent'.serial = spent.serial
  BY <1>1 DEF IInv, TypeOK
<1>3. /\ story' \in Stories /\ StoryGrows
      /\ \A c \in Clients :
           /\ Answered(c) /\ calls[c].result = "SUCCESS" => "lost" \in story'.pairs[Pair(c)]
           /\ Busy(c, "createBoard", "locate") => calls[c].id \in story'.cut
           /\ calls[c] # NULL /\ calls[c].op = "enableService"
              /\ calls[c].at \in {"allow", "execute", "invoke", "record"} => calls[c].port \in story'.stray
  BY <1>1, CutFacts DEF IInv
<1>4. calls' = [c \in Clients |-> IF calls[c] = NULL \/ calls[c].at \notin {"invoke", "orphan"} THEN NULL
                                 ELSE [calls[c] EXCEPT !.at = "orphan"]]
  BY DEF ConductorCrashes
<1>5. ASSUME NEW c \in Clients, calls[c] # NULL, calls[c].at \in {"invoke", "orphan"}
      PROVE  /\ calls'[c] \in Calls /\ calls'[c] # NULL
             /\ calls'[c].at = "orphan" /\ Moved(calls[c], calls'[c])
             /\ calls[c].op \in DeviceOps
  <2>1. calls[c] \in Calls /\ "orphan" \in Labels
    BY <1>5 DEF IInv, TypeOK, Labels
  <2>2. calls'[c] = [calls[c] EXCEPT !.at = "orphan"]
    BY <1>4, <1>5
  <2>3. calls[c].op \in DeviceOps
    BY <1>5 DEF IInv, CallInv
  <2>. QED BY <2>1, <2>2, <2>3, MoveCall, NullAssumption
<1>6. calls' \in [Clients -> Calls \cup {NULL}]
  BY <1>4, <1>5
<1>7. CallInv'
  BY <1>1, <1>4, <1>5, CallsStay DEF IInv, tables
<1>8. ASSUME NEW c \in Clients PROVE Keeps(c)
  <2>1. CASE calls[c] # NULL /\ calls[c].at \in {"invoke", "orphan"}
    <3>1. calls[c].op = "enableService" => calls[c].port \in story'.stray
      BY <1>3, <2>1 DEF IInv, PortInv, ClaimInv, StoryGrows
    <3>. QED BY <1>3, <1>5, <2>1, <3>1, MoveKeeps DEF IInv
  <2>2. CASE calls[c] = NULL
    BY <1>4, <2>2, EndKeeps DEF Answered, Busy, Taking
  <2>3. CASE calls[c] # NULL /\ calls[c].at \notin {"invoke", "orphan"}
    <3>1. calls'[c] = NULL
      BY <1>4, <2>3
    <3>2. Taking(c) => calls[c].port \in story'.stray
      BY <1>3, <2>3 DEF Taking, IInv, PortInv, ClaimInv
    <3>. QED BY <1>3, <3>1, <3>2, EndKeeps
  <2>. QED BY <2>1, <2>2, <2>3
<1>. QED BY <1>1, <1>2, <1>3, <1>6, <1>7, <1>8, QuietStep
-----------------------------------------------------------------------------
(* Plugins, services and fleets                                              *)
LEMMA EntityStep ==
  ASSUME IInv, NEW c \in Clients, calls[c] # NULL, Return(c),
         calls[c].op \notin DeviceOps \cup {"createBoard", "updateBoard"},
         UNCHANGED <<located, injections, exposed, device, mix, spent, story>>,
         NEW t \in Tables \ {"boards"}, NEW f \in [Uuids(t) -> Row(t) \cup {NULL}],
         NEW g \in SUBSET Uuids(t), born[t] \subseteq g, \A id \in Uuids(t) : f[id] # NULL => id \in g,
         rows' = [rows EXCEPT ![t] = f], born' = [born EXCEPT ![t] = g]
  PROVE  IInv'
<1>. USE DEF IInv
<1>1. UNCHANGED <<located, injections, exposed, installed, allowed, free, mix, spent, story>>
  BY DEF device
<1>2. /\ calls' \in [Clients -> Calls \cup {NULL}] /\ calls'[c] = NULL
      /\ \A d \in Clients \ {c} : calls'[d] = calls[d]
  BY ReturnStep
<1>3. TypeOK /\ TableInv
  OBVIOUS
<1>4. /\ rows' = [u \in Tables |-> rows'[u]] /\ rows'[t] = f
      /\ \A u \in Tables \ {t} : rows'[u] = rows[u]
  BY <1>3 DEF TypeOK
<1>5. /\ born' = [u \in Tables |-> born'[u]] /\ born'[t] = g
      /\ \A u \in Tables \ {t} : born'[u] = born[u]
  BY <1>3 DEF TypeOK
<1>6. rows'.boards = rows.boards /\ born'.boards = born.boards
  BY <1>4, <1>5 DEF Tables
<1>7. TypeOK'
  <2>. HIDE DEF IInv
  <2>1. \A u \in Tables : rows'[u] \in [Uuids(u) -> Row(u) \cup {NULL}] /\ born'[u] \subseteq Uuids(u)
    BY <1>3, <1>4, <1>5 DEF TypeOK
  <2>. QED BY <1>1, <1>2, <1>3, <1>4, <1>5, <2>1 DEF TypeOK
<1>8. TableInv'
  <2>. HIDE DEF IInv
  <2>1. \A u \in Tables : \A id \in Uuids(u) : Exists(u, id)' => id \in born'[u]
    BY <1>3, <1>4, <1>5 DEF TableInv, Exists
  <2>. QED BY <1>1, <1>3, <1>6, <2>1 DEF TableInv, Exists
<1>9. StoryGrows
  BY <1>1 DEF StoryGrows
<1>10. Keeps(c)
  BY <1>2, EndKeeps DEF Answered, Busy, Taking, DeviceOps
<1>11. \A d \in Clients : NameKeeps(d) /\ PluginKeeps(d) /\ LocateKeeps(d) /\ PortKeeps(d)
  BY <1>2, <1>9, <1>10, SameKeeps DEF Keeps
<1>12. BoardsStay /\ InjectionsStay
  BY <1>1, <1>6 DEF BoardsStay, InjectionsStay, Exists, RowsOf
<1>13. CallInv'
  BY <1>2, <1>6, CallsStay
<1>14. NameInv'
  BY <1>9, <1>11, <1>12, NameStays
<1>15. InjectionInv'
  BY <1>1, <1>9, <1>11, <1>12, InjectionStays
<1>16. HasLocation'
  BY <1>1, <1>9, <1>11, <1>12, LocationStays DEF BoardsStay
<1>17. PortInv'
  BY <1>1, <1>9, <1>11, PortsStay
<1>. QED BY <1>7, <1>8, <1>13, <1>14, <1>15, <1>16, <1>17

(* The three kinds of transactions.                                         *)
LEMMA InsertStep ==
  ASSUME IInv, NEW c \in Clients, NEW op \in {"createPlugin", "createService", "createFleet"},
         NEW t \in Tables \ {"boards"}, NEW id \in Uuids(t),
         Transaction(c, op, "insert", Insert(t, id, Changes(Sent(c))))
  PROVE  IInv'
<1>1. /\ calls[c] # NULL /\ calls[c].op = op /\ Return(c)
      /\ UNCHANGED <<located, injections, exposed, device, mix, spent, story>>
      /\ id \notin born[t] /\ born' = [born EXCEPT ![t] = born[t] \cup {id}]
      /\ rows' = [rows EXCEPT ![t] = [rows[t] EXCEPT ![id] = Changes(Sent(c))]]
  BY DEF Transaction, Busy, Insert
<1>2. calls[c] \in CreateRows
  BY <1>1, CallKinds DEF IInv, TypeOK
<1>3. Changes(Sent(c)) \in Row(t)
  <2>. DEFINE m == calls[c].msg
  <2>1. m.data \in Row("plugins") /\ m.changes = Columns("plugins")
    BY <1>2 DEF CreateRows
  <2>. HIDE DEF m
  <2>2. DOMAIN m.data = m.changes /\ m.data = [x \in DOMAIN m.data |-> m.data[x]]
    BY <2>1 DEF Row, Columns
  <2>3. FromPrimitive(m) = Object(m.data, m.changes)
    BY <2>2, SentIs
  <2>4. Changes(FromPrimitive(m)) = m.data
    BY <2>2, <2>3 DEF Changes, Object
  <2>. QED BY <2>1, <2>4 DEF Sent, m, Row
<1>. DEFINE f == [rows[t] EXCEPT ![id] = Changes(Sent(c))]
            g == born[t] \cup {id}
<1>4. f \in [Uuids(t) -> Row(t) \cup {NULL}] /\ g \in SUBSET Uuids(t) /\ born[t] \subseteq g
  BY <1>3 DEF IInv, TypeOK
<1>5. \A u \in Uuids(t) : f[u] # NULL => u \in g
  BY DEF IInv, TypeOK, TableInv, Exists
<1>6. calls[c].op \notin DeviceOps \cup {"createBoard", "updateBoard"}
  BY <1>1 DEF DeviceOps, PluginOps
<1>. HIDE DEF f, g
<1>. QED BY <1>1, <1>4, <1>5, <1>6, EntityStep DEF f, g

(* A handler that saves a plugin, a service or a fleet.                     *)
LEMMA UpdateStep ==
  ASSUME IInv, NEW c \in Clients, NEW op \in {"updatePlugin", "updateService", "updateFleet"},
         NEW t \in Tables \ {"boards"}, op = "updatePlugin" => t = "plugins",
         op = "updateService" => t = "services", op = "updateFleet" => t = "fleets",
         Transaction(c, op, "save", UpdateEntityRow(t, calls[c].id, Sent(c)))
  PROVE  IInv'
<1>. DEFINE id == calls[c].id
            m  == calls[c].msg
<1>1. /\ calls[c] # NULL /\ calls[c].op = op /\ Return(c)
      /\ UNCHANGED <<located, injections, exposed, device, mix, spent, story>>
      /\ UNCHANGED born
      /\ IF CanUpdate(t, id, Sent(c)) THEN UpdateRow(t, id, Sent(c)) ELSE UNCHANGED rows
  BY DEF Transaction, Busy, UpdateEntityRow
<1>2. calls[c] \in UpdateRows(op, Uuids(t))
  BY <1>1, CallKinds DEF IInv, TypeOK, Uuids
<1>3. id \in Uuids(t) /\ m.data \in Row("plugins") /\ m.changes \subseteq Columns("plugins")
  BY <1>2 DEF UpdateRows
<1>4. Row(t) = Row("plugins") /\ Columns(t) = Columns("plugins")
  BY DEF Row, Columns
<1>. HIDE DEF id, m
<1>5. Sent(c) = Object(m.data, m.changes)
  BY <1>3, SentIs DEF Row, Columns, Sent, m
<1>. DEFINE f == IF CanUpdate(t, id, Sent(c))
                 THEN [rows[t] EXCEPT ![id] = Saved(rows[t][id], Sent(c))] ELSE rows[t]
            g == born[t]
<1>6. CanUpdate(t, id, Sent(c)) => Saved(rows[t][id], Sent(c)) \in Row(t)
  BY <1>3, <1>4, <1>5, SavedIs DEF CanUpdate, Exists, IInv, TypeOK
<1>7. f \in [Uuids(t) -> Row(t) \cup {NULL}] /\ g \in SUBSET Uuids(t) /\ born[t] \subseteq g
  BY <1>3, <1>6 DEF IInv, TypeOK
<1>8. \A u \in Uuids(t) : f[u] # NULL => u \in g
  BY <1>3 DEF IInv, TypeOK, TableInv, Exists, CanUpdate
<1>9. rows' = [rows EXCEPT ![t] = f] /\ born' = [born EXCEPT ![t] = g]
  <2>1. rows = [u \in Tables |-> rows[u]] /\ born = [u \in Tables |-> born[u]]
    BY DEF IInv, TypeOK
  <2>. QED BY <1>1, <2>1 DEF UpdateRow
<1>10. calls[c].op \notin DeviceOps \cup {"createBoard", "updateBoard"}
  BY <1>1 DEF DeviceOps, PluginOps
<1>. HIDE DEF f, g
<1>. QED BY <1>1, <1>7, <1>8, <1>9, <1>10, EntityStep

(* A handler that destroys one of them: nothing refers to it.               *)
LEMMA DestroyStep ==
  ASSUME IInv, NEW c \in Clients, NEW op \in {"destroyPlugin", "destroyService", "destroyFleet"},
         NEW t \in Tables \ {"boards"}, op = "destroyPlugin" => t = "plugins",
         op = "destroyService" => t = "services", op = "destroyFleet" => t = "fleets", NEW inUse,
         Transaction(c, op, "destroy", DestroyEntityRow(t, calls[c].id, inUse))
  PROVE  IInv'
<1>. DEFINE id == calls[c].id
<1>1. /\ calls[c] # NULL /\ calls[c].op = op /\ Return(c)
      /\ UNCHANGED <<located, injections, exposed, device, mix, spent, story>>
      /\ UNCHANGED born
      /\ DeleteRow(t, id) \/ UNCHANGED rows
  BY DEF Transaction, Busy, DestroyEntityRow
<1>2. calls[c] \in DestroyRows(op, Uuids(t))
  BY <1>1, CallKinds DEF IInv, TypeOK, Uuids
<1>3. id \in Uuids(t)
  BY <1>2 DEF DestroyRows
<1>. HIDE DEF id
<1>4. PICK f : f \in {rows[t], [rows[t] EXCEPT ![id] = NULL]} /\ rows' = [rows EXCEPT ![t] = f]
  BY <1>1 DEF IInv, TypeOK, DeleteRow
<1>5. f \in [Uuids(t) -> Row(t) \cup {NULL}] /\ \A u \in Uuids(t) : f[u] # NULL => u \in born[t]
  BY <1>3, <1>4 DEF IInv, TypeOK, TableInv, Exists
<1>6. born[t] \in SUBSET Uuids(t) /\ born' = [born EXCEPT ![t] = born[t]]
  BY <1>1 DEF IInv, TypeOK
<1>7. calls[c].op \notin DeviceOps \cup {"createBoard", "updateBoard"}
  BY <1>1 DEF DeviceOps, PluginOps
<1>. QED BY <1>1, <1>4, <1>5, <1>6, <1>7, EntityStep

(* The handlers of plugins, services and fleets.                            *)
LEMMA EntityInv ==
  ASSUME IInv, NEW c \in Clients,
         \/ CreatePlugin(c) \/ UpdatePlugin(c) \/ DestroyPlugin(c)
         \/ CreateService(c) \/ UpdateService(c) \/ DestroyService(c)
         \/ CreateFleet(c) \/ UpdateFleet(c) \/ DestroyFleet(c)
  PROVE  IInv'
<1>. USE DEF Tables, Uuids
<1>1. CASE CreatePlugin(c)
  <2>1. PICK p \in Plugins : Transaction(c, "createPlugin", "insert", Insert("plugins", p, Changes(Sent(c))))
    BY <1>1 DEF CreatePlugin, CreatePluginRow, Transaction
  <2>. QED BY <2>1, InsertStep
<1>2. CASE CreateService(c)
  <2>1. PICK s \in Services : Transaction(c, "createService", "insert", Insert("services", s, Changes(Sent(c))))
    BY <1>2 DEF CreateService, CreateServiceRow, Transaction
  <2>. QED BY <2>1, InsertStep
<1>3. CASE CreateFleet(c)
  <2>1. PICK f \in Fleets : Transaction(c, "createFleet", "insert", Insert("fleets", f, Changes(Sent(c))))
    BY <1>3 DEF CreateFleet, CreateFleetRow, Transaction
  <2>. QED BY <2>1, InsertStep
<1>4. CASE UpdatePlugin(c) BY <1>4, UpdateStep DEF UpdatePlugin, UpdatePluginRow
<1>5. CASE UpdateService(c) BY <1>5, UpdateStep DEF UpdateService, UpdateServiceRow
<1>6. CASE UpdateFleet(c) BY <1>6, UpdateStep DEF UpdateFleet, UpdateFleetRow
<1>7. CASE DestroyPlugin(c) BY <1>7, DestroyStep DEF DestroyPlugin, DestroyPluginRow
<1>8. CASE DestroyService(c) BY <1>8, DestroyStep DEF DestroyService, DestroyServiceRow
<1>9. CASE DestroyFleet(c) BY <1>9, DestroyStep DEF DestroyFleet, DestroyFleetRow
<1>. QED BY <1>1, <1>2, <1>3, <1>4, <1>5, <1>6, <1>7, <1>8, <1>9
-----------------------------------------------------------------------------
(* Boards                                                                    *)
(* A step that writes the row of one board.                                 *)
LEMMA BoardRowStep ==
  ASSUME TypeOK, NEW b \in Boards, NEW r \in Row("boards") \cup {NULL},
         rows' = [rows EXCEPT !.boards[b] = r]
  PROVE  /\ rows' = [t \in Tables |-> rows'[t]]
         /\ \A t \in Tables : rows'[t] \in [Uuids(t) -> Row(t) \cup {NULL}]
         /\ rows'.boards[b] = r /\ \A a \in Boards \ {b} : rows'.boards[a] = rows.boards[a]
         /\ \A t \in Tables \ {"boards"} : rows'[t] = rows[t]
<1>1. rows = [t \in Tables |-> rows[t]] /\ rows.boards \in [Boards -> Row("boards") \cup {NULL}]
  BY DEF TypeOK, Tables, Uuids
<1>2. rows' = [rows EXCEPT !.boards = [rows.boards EXCEPT ![b] = r]]
  OBVIOUS
<1>3. /\ rows' = [t \in Tables |-> rows'[t]] /\ rows'.boards = [rows.boards EXCEPT ![b] = r]
      /\ \A t \in Tables \ {"boards"} : rows'[t] = rows[t]
  BY <1>1, <1>2 DEF Tables
<1>4. rows'.boards \in [Boards -> Row("boards") \cup {NULL}]
  BY <1>1, <1>3
<1>5. \A t \in Tables : rows'[t] \in [Uuids(t) -> Row(t) \cup {NULL}]
  BY <1>3, <1>4 DEF TypeOK, Uuids
<1>. QED BY <1>1, <1>3, <1>5, ZenonT(60)

(* create_board goes on when it finds no board of the name.                 *)
LEMMA CheckNameInv ==
  ASSUME IInv, NEW c \in Clients, CheckName(c)
  PROVE  IInv'
<1>1. calls[c] # NULL /\ calls[c].op = "createBoard" /\ calls[c].at = "check"
      /\ UNCHANGED <<tables, device, mix, spent, story>>
  BY DEF CheckName, Busy
<1>2. CASE Return(c)
  BY <1>1, <1>2, EndInv DEF PluginOps
<1>3. CASE Goto(c, "insert") /\ ~ExistsByName(calls[c].msg.data.name)
  <2>1. /\ calls' \in [Clients -> Calls \cup {NULL}]
        /\ calls'[c] # NULL /\ calls'[c].at = "insert" /\ Moved(calls[c], calls'[c])
        /\ \A d \in Clients \ {c} : calls'[d] = calls[d]
    BY <1>1, <1>3, GotoStep DEF IInv, Labels
  <2>2. story' \in Stories /\ StoryGrows /\ spent' \in [calls : Nat, toggles : Nat, crashes : Nat, serial : Nat]
    BY <1>1 DEF IInv, TypeOK, StoryGrows
  <2>3. TypeOK' /\ TableInv' /\ BoardsStay /\ InjectionsStay
    BY <1>1, <2>1, <2>2, RowsStill DEF IInv
  <2>4. CallInv'
    BY <1>1, <2>1, CallsStay DEF IInv, tables
  <2>5. /\ PluginKeeps(c) /\ LocateKeeps(c) /\ PortKeeps(c)
    BY <1>1, <2>1 DEF PluginKeeps, LocateKeeps, PortKeeps, Moved, PluginOps, Answered, Busy, Taking
  <2>6. \A d \in Clients \ {c} : Keeps(d)
    BY <2>1, <2>2, SameKeeps DEF IInv
  <2>7. \A d \in Clients : PluginKeeps(d) /\ LocateKeeps(d) /\ PortKeeps(d)
    BY <2>5, <2>6 DEF Keeps
  <2>8. NameInv'
    <3>1. UniqueName' /\ \A n \in Names : ExistsByName(n)' = ExistsByName(n)
      BY <1>1 DEF IInv, NameInv, UniqueName, Exists, ExistsByName, ByName, tables
    <3>2. calls[c].msg.data.name \in Names /\ calls'[c].msg = calls[c].msg
      <4>1. calls[c] \in CreateBoards
        BY <1>1, CallKinds DEF IInv, TypeOK
      <4>. QED BY <1>1, <2>1, <4>1 DEF CreateBoards, Moved
    <3>3. ASSUME NEW d \in Clients, Busy(d, "createBoard", "insert")'
          PROVE  calls'[d].msg.data.name \in story'.clash \cup {n \in Names : ~ExistsByName(n)'}
      <4>1. CASE d = c
        BY <1>3, <3>1, <3>2, <4>1
      <4>2. CASE d # c
        BY <1>1, <2>1, <3>1, <3>3, <4>2 DEF IInv, NameInv, Busy
      <4>. QED BY <4>1, <4>2
    <3>. QED BY <3>1, <3>3 DEF NameInv
  <2>9. InjectionInv'
    BY <1>1, <2>2, <2>3, <2>7, InjectionStays DEF IInv, device
  <2>10. HasLocation'
    BY <1>1, <2>2, <2>3, <2>7, LocationStays DEF IInv, BoardsStay, tables
  <2>11. PortInv'
    BY <1>1, <2>2, <2>7, PortsStay DEF IInv, tables, device
  <2>. QED BY <2>3, <2>4, <2>8, <2>9, <2>10, <2>11 DEF IInv
<1>. QED BY <1>2, <1>3 DEF CheckName

(* The row of a new board.                                                  *)
LEMMA NewRow ==
  ASSUME NEW m, m \in [data : [name : Names, fleet : Fleets \cup {NULL}], changes : {{"name", "fleet"}}]
  PROVE  /\ BoardRow(Changes(FromPrimitive(m))) \in Row("boards")
         /\ BoardRow(Changes(FromPrimitive(m))).name = m.data.name
         /\ m.data.name \in Names
<1>1. /\ m.data = [x \in DOMAIN m.data |-> m.data[x]] /\ DOMAIN m.data = {"name", "fleet"}
      /\ m.changes = {"name", "fleet"} /\ m.data.name \in Names /\ m.data.fleet \in Fleets \cup {NULL}
  OBVIOUS
<1>2. FromPrimitive(m) = Object(m.data, m.changes)
  BY <1>1, SentIs
<1>3. Changes(FromPrimitive(m)) = m.data
  BY <1>1, <1>2 DEF Changes, Object
<1>. DEFINE r == BoardRow(m.data)
<1>4. r = [x \in {"name", "fleet", "status"} |-> IF x \in {"name", "fleet"} THEN m.data[x] ELSE "registered"]
  BY <1>1 DEF BoardRow, Over
<1>5. r = [name |-> m.data.name, fleet |-> m.data.fleet, status |-> "registered"]
  BY <1>4
<1>. HIDE DEF r
<1>6. r \in Row("boards") /\ r.name = m.data.name
  BY <1>1, <1>5 DEF Row, Status
<1>. QED BY <1>1, <1>3, <1>6 DEF r

(* The new board has a name that no board had, or clashes with the call     *)
(* that has just taken it.                                                  *)
LEMMA InsertBoardInv ==
  ASSUME IInv, NEW c \in Clients, InsertBoard(c)
  PROVE  IInv'
<1>. DEFINE row == BoardRow(Changes(Sent(c)))
            n   == row.name
            Race(d) == calls[d] # NULL /\ calls[d].op = "createBoard"
                       /\ calls[d].at = "insert" /\ calls[d].msg.data.name = n
<1>1. calls[c] # NULL /\ calls[c].op = "createBoard" /\ calls[c].at = "insert"
      /\ UNCHANGED <<device, mix, spent>>
  BY DEF InsertBoard, Busy
<1>2. calls[c] \in CreateBoards
  BY <1>1, CallKinds DEF IInv, TypeOK
<1>3. row \in Row("boards") /\ n = calls[c].msg.data.name /\ n \in Names
  BY <1>2, NewRow DEF CreateBoards, Sent
<1>4. CASE Return(c) /\ UNCHANGED <<tables, story>>
  BY <1>1, <1>4, EndInv DEF PluginOps
<1>5. ASSUME NEW b \in Boards, Insert("boards", b, row),
             calls' = [calls EXCEPT ![c].at = "locate", ![c].id = b],
             story' = [story EXCEPT !.clash = IF \E d \in Clients \ {c} : Race(d) THEN @ \cup {n} ELSE @],
             UNCHANGED <<located, injections, exposed>>
      PROVE  IInv'
  <2>. HIDE DEF row
  <2>1. b \notin born.boards /\ born' = [born EXCEPT !.boards = born.boards \cup {b}]
        /\ rows' = [rows EXCEPT !.boards[b] = row]
    BY <1>5 DEF Insert
  <2>2. UNCHANGED <<located, injections, exposed, installed, allowed, free, mix, spent>>
    BY <1>1, <1>5 DEF device
  <2>3. /\ rows' = [t \in Tables |-> rows'[t]]
        /\ \A t \in Tables : rows'[t] \in [Uuids(t) -> Row(t) \cup {NULL}]
        /\ rows'.boards[b] = row /\ \A a \in Boards \ {b} : rows'.boards[a] = rows.boards[a]
        /\ \A t \in Tables \ {"boards"} : rows'[t] = rows[t]
    BY <1>3, <2>1, BoardRowStep DEF IInv
  <2>4. /\ born' = [t \in Tables |-> born'[t]] /\ born'.boards = born.boards \cup {b}
        /\ \A t \in Tables \ {"boards"} : born'[t] = born[t]
        /\ \A t \in Tables : born'[t] \subseteq Uuids(t)
    <3>1. born = [t \in Tables |-> born[t]] /\ \A t \in Tables : born[t] \subseteq Uuids(t)
      BY DEF IInv, TypeOK
    <3>. QED BY <2>1, <3>1 DEF Tables, Uuids
  <2>5. /\ calls' \in [Clients -> Calls \cup {NULL}] /\ calls'[c] # NULL
        /\ calls'[c] \in CreateBoards /\ calls'[c].at = "locate" /\ calls'[c].id = b
        /\ \A d \in Clients \ {c} : calls'[d] = calls[d]
    <3>. DEFINE m == [calls[c] EXCEPT !.at = "locate", !.id = b]
    <3>1. m \in CreateBoards /\ m.at = "locate" /\ m.id = b
      BY <1>2 DEF CreateBoards, Labels
    <3>2. m \in Calls /\ m # NULL
      BY <3>1, NullAssumption DEF Calls
    <3>3. calls \in [Clients -> Calls \cup {NULL}] /\ calls' = [calls EXCEPT ![c] = m]
      BY <1>5 DEF IInv, TypeOK
    <3>. HIDE DEF m
    <3>. QED BY <3>1, <3>2, <3>3
  <2>6. /\ story' \in Stories /\ StoryGrows
        /\ \A d \in Clients \ {c} : Race(d) => n \in story'.clash
    <3>1. story \in Stories
      BY DEF IInv, TypeOK
    <3>. HIDE DEF Race, n
    <3>. QED BY <1>3, <1>5, <3>1 DEF Stories, StoryGrows
  <2>7. TypeOK'
    BY <2>2, <2>3, <2>4, <2>5, <2>6 DEF IInv, TypeOK
  <2>8. row # NULL
    BY <1>3, NullAssumption DEF Tables
  <2>9. \A a \in Boards : Exists("boards", a)' <=> Exists("boards", a) \/ a = b
    BY <2>3, <2>8 DEF Exists
  <2>10. ~Exists("boards", b)
    BY <2>1 DEF IInv, TableInv, Tables, Uuids
  <2>11. \A t \in Tables : \A id \in Uuids(t) : Exists(t, id)' => id \in born'[t]
    BY <2>3, <2>4, <2>9, ZenonT(60) DEF IInv, TableInv, Exists, Uuids
  <2>12. TableInv'
    BY <2>2, <2>4, <2>9, <2>11 DEF IInv, TypeOK, TableInv, Exposures
  <2>13. CallInv'
    BY <1>1, <2>4, <2>5 DEF IInv, CallInv, CreateBoards, DeviceOps, PluginOps
  <2>14. PluginKeeps(c) /\ PortKeeps(c)
    BY <1>1, <2>5 DEF PluginKeeps, PortKeeps, CreateBoards, PluginOps, Answered, Taking
  <2>15. \A d \in Clients \ {c} : Keeps(d)
    BY <2>5, <2>6, SameKeeps DEF IInv
  <2>16. \A d \in Clients : PluginKeeps(d) /\ PortKeeps(d)
    BY <2>14, <2>15 DEF Keeps
  <2>17. InjectionsStay
    <3>1. installed[b] = {}
      BY <2>1 DEF IInv, TableInv
    <3>2. \A a \in Boards, p \in Plugins : RowsOf(a, p)' = RowsOf(a, p)
      BY <2>2 DEF RowsOf
    <3>. QED BY <2>2, <2>9, <3>1, <3>2 DEF InjectionsStay
  <2>18. InjectionInv'
    BY <2>2, <2>6, <2>16, <2>17, InjectionStays DEF IInv
  <2>19. PortInv'
    BY <2>2, <2>6, <2>16, PortsStay DEF IInv
  <2>20. HasLocation'
    <3>. SUFFICES ASSUME NEW a \in Boards, Exists("boards", a)', a \notin located, a \notin story'.cut
                  PROVE  \E d \in Clients : Busy(d, "createBoard", "locate")' /\ calls'[d].id = a
      BY <2>2 DEF HasLocation
    <3>1. CASE a = b
      BY <2>5, <3>1 DEF Busy, CreateBoards
    <3>2. CASE a # b
      <4>1. PICK d \in Clients : Busy(d, "createBoard", "locate") /\ calls[d].id = a
        BY <2>6, <2>9, <3>2 DEF IInv, HasLocation, StoryGrows
      <4>. QED BY <1>1, <2>5, <4>1 DEF Busy
    <3>. QED BY <3>1, <3>2
  <2>21. ExistsByName(n) => n \in story.clash
    BY <1>1, <1>3 DEF IInv, NameInv, Busy
  <2>22. UniqueName'
    <3>. SUFFICES ASSUME NEW a \in Boards, NEW e \in Boards, a # e, Exists("boards", a)', Exists("boards", e)',
                         rows'.boards[a].name = rows'.boards[e].name
                  PROVE  rows'.boards[a].name \in story'.clash
      BY DEF UniqueName
    <3>1. CASE a # b /\ e # b
      BY <2>3, <2>6, <2>9, <3>1 DEF IInv, NameInv, UniqueName, StoryGrows
    <3>2. CASE a = b \/ e = b
      <4>1. PICK x \in Boards : x # b /\ Exists("boards", x) /\ rows.boards[x].name = n
        BY <2>3, <2>9, <3>2
      <4>2. x \in ByName("boards", n)
        BY <4>1 DEF ByName, Uuids
      <4>3. n \in story.clash
        BY <2>21, <4>2 DEF ExistsByName
      <4>. QED BY <2>3, <2>6, <3>2, <4>3 DEF StoryGrows
    <3>. QED BY <3>1, <3>2
  <2>23. \A m \in Names : m # n /\ ExistsByName(m)' => ExistsByName(m)
    BY <2>3, <2>9 DEF ExistsByName, ByName, Uuids
  <2>24. ASSUME NEW d \in Clients, Busy(d, "createBoard", "insert")'
         PROVE  calls'[d].msg.data.name \in story'.clash \cup {m \in Names : ~ExistsByName(m)'}
    <3>1. d # c /\ calls'[d] = calls[d] /\ Busy(d, "createBoard", "insert")
      BY <2>5, <2>24 DEF Busy
    <3>2. calls[d].msg.data.name \in story.clash \cup {m \in Names : ~ExistsByName(m)}
      BY <3>1 DEF IInv, NameInv
    <3>3. calls[d].msg.data.name = n => n \in story'.clash
      BY <2>6, <3>1 DEF Busy
    <3>. QED BY <2>6, <2>23, <3>1, <3>2, <3>3 DEF StoryGrows
  <2>25. NameInv'
    BY <2>22, <2>24 DEF NameInv
  <2>. QED BY <2>7, <2>12, <2>13, <2>18, <2>19, <2>20, <2>25 DEF IInv
<1>. QED BY <1>4, <1>5 DEF InsertBoard

(* The location of a board that was made.                                   *)
LEMMA CreateLocationInv ==
  ASSUME IInv, NEW c \in Clients, CreateLocation(c)
  PROVE  IInv'
<1>1. /\ calls[c] # NULL /\ calls[c].op = "createBoard" /\ calls[c].at = "locate" /\ Return(c)
      /\ UNCHANGED <<rows, injections, exposed, born, installed, allowed, free, mix, spent, story>>
  BY DEF CreateLocation, Busy, device
<1>2. /\ calls' \in [Clients -> Calls \cup {NULL}] /\ calls'[c] = NULL
      /\ \A d \in Clients \ {c} : calls'[d] = calls[d]
  BY <1>1, ReturnStep DEF IInv
<1>3. calls[c].id \in Boards
  BY <1>1 DEF IInv, CallInv
<1>4. TypeOK'
  BY <1>1, <1>2, <1>3 DEF IInv, TypeOK, CreateLocation
<1>5. StoryGrows /\ BoardsStay /\ InjectionsStay
  BY <1>1 DEF StoryGrows, BoardsStay, InjectionsStay, Exists, RowsOf
<1>6. NameKeeps(c) /\ PluginKeeps(c) /\ PortKeeps(c)
  BY <1>1, <1>2 DEF NameKeeps, PluginKeeps, PortKeeps, Busy, Answered, PluginOps, Taking
<1>7. \A d \in Clients \ {c} : Keeps(d)
  BY <1>2, <1>5, SameKeeps DEF IInv
<1>8. \A d \in Clients : NameKeeps(d) /\ PluginKeeps(d) /\ PortKeeps(d)
  BY <1>6, <1>7 DEF Keeps
<1>9. TableInv' /\ CallInv'
  BY <1>1, <1>2, TableStays, CallsStay DEF IInv
<1>10. NameInv'
  BY <1>5, <1>8, NameStays DEF IInv
<1>11. InjectionInv'
  BY <1>1, <1>5, <1>8, InjectionStays DEF IInv
<1>12. PortInv'
  BY <1>1, <1>5, <1>8, PortsStay DEF IInv
<1>13. HasLocation'
  <2>. SUFFICES ASSUME NEW a \in Boards, Exists("boards", a)', a \notin located', a \notin story'.cut
                PROVE  \E d \in Clients : Busy(d, "createBoard", "locate")' /\ calls'[d].id = a
    BY DEF HasLocation
  <2>1. Exists("boards", a) /\ a \notin located /\ a \notin story.cut
    BY <1>1, <1>3 DEF Exists, CreateLocation
  <2>2. PICK d \in Clients : Busy(d, "createBoard", "locate") /\ calls[d].id = a
    BY <2>1 DEF IInv, HasLocation
  <2>3. d # c
    BY <2>1, <2>2 DEF CreateLocation
  <2>. QED BY <1>2, <2>2, <2>3 DEF Busy
<1>. QED BY <1>4, <1>9, <1>10, <1>11, <1>12, <1>13 DEF IInv

(* What save() writes of a board: the columns of the request.               *)
LEMMA SavedBoard ==
  ASSUME IInv, NEW c \in Clients, Busy(c, "updateBoard", "save"),
         CanUpdate("boards", calls[c].id, Sent(c))
  PROVE  /\ calls[c].id \in Boards
         /\ LET r == Saved(rows.boards[calls[c].id], Sent(c)) IN
            /\ r \in Row("boards")
            /\ \A col \in Columns("boards") :
                 IF col \in Sent(c).changed THEN r[col] = Sent(c).vals[col]
                 ELSE r[col] = rows.boards[calls[c].id][col]
         /\ Sent(c).changed \subseteq calls[c].asked
         /\ Sent(c).vals.name \in Names
<1>1. calls[c] \in UpdateBoards
  BY CallKinds DEF IInv, TypeOK, Busy
<1>. DEFINE m == calls[c].msg
<1>2. m.data \in Row("boards") /\ m.changes \subseteq Columns("boards") /\ calls[c].id \in Boards
  BY <1>1 DEF UpdateBoards
<1>3. m.changes \subseteq calls[c].asked
  BY DEF IInv, CallInv, Busy
<1>. HIDE DEF m
<1>4. Sent(c) = Object(m.data, m.changes)
  BY <1>2, SentIs DEF Row, Columns, Sent, m
<1>5. Sent(c).changed = m.changes /\ Sent(c).vals = m.data
  BY <1>4 DEF Object
<1>. DEFINE r == Saved(rows.boards[calls[c].id], Sent(c))
<1>6. rows.boards[calls[c].id] \in Row("boards")
  BY <1>2 DEF CanUpdate, Exists, IInv, TypeOK, Tables, Uuids
<1>7. /\ r \in Row("boards")
      /\ \A col \in Columns("boards") :
           r[col] = IF col \in m.changes THEN m.data[col] ELSE rows.boards[calls[c].id][col]
  BY <1>2, <1>4, <1>6, SavedIs DEF Tables
<1>. HIDE DEF r
<1>8. Sent(c).vals.name \in Names
  BY <1>2, <1>5 DEF Row
<1>. QED BY <1>2, <1>3, <1>5, <1>7, <1>8 DEF r, m

(* A PATCH of a board is saved: if it gives a name, that one may clash.     *)
LEMMA UpdateBoardInv ==
  ASSUME IInv, NEW c \in Clients, UpdateBoard(c)
  PROVE  IInv'
<1>. DEFINE b == calls[c].id
            o == Sent(c)
            r == Saved(rows.boards[b], o)
<1>1. /\ calls[c] # NULL /\ calls[c].op = "updateBoard" /\ Busy(c, "updateBoard", "save") /\ Return(c)
      /\ UNCHANGED <<located, injections, exposed, born, device, mix, spent>>
  BY DEF UpdateBoard, Busy
<1>2. CASE UNCHANGED <<rows, story>>
  BY <1>1, <1>2, EndInv DEF PluginOps, tables
<1>3. CASE /\ CanUpdate("boards", b, o) /\ UpdateRow("boards", b, o)
           /\ story' = [story EXCEPT !.clash = IF "name" \in o.changed THEN @ \cup {o.vals.name} ELSE @]
  <2>1. /\ b \in Boards /\ r \in Row("boards") /\ o.vals.name \in Names
        /\ IF "name" \in o.changed THEN r.name = o.vals.name ELSE r.name = rows.boards[b].name
    <3>1. b \in Boards /\ r \in Row("boards") /\ o.vals.name \in Names
      BY <1>1, <1>3, SavedBoard
    <3>2. IF "name" \in o.changed THEN r["name"] = o.vals["name"] ELSE r["name"] = rows.boards[b]["name"]
      BY <1>1, <1>3, SavedBoard DEF Columns
    <3>. QED BY <3>1, <3>2
  <2>2. rows' = [rows EXCEPT !.boards[b] = r] /\ Exists("boards", b)
    BY <1>3 DEF UpdateRow, CanUpdate
  <2>. HIDE DEF b, o, r
  <2>3. /\ rows' = [t \in Tables |-> rows'[t]]
        /\ \A t \in Tables : rows'[t] \in [Uuids(t) -> Row(t) \cup {NULL}]
        /\ rows'.boards[b] = r /\ \A a \in Boards \ {b} : rows'.boards[a] = rows.boards[a]
        /\ \A t \in Tables \ {"boards"} : rows'[t] = rows[t]
    BY <2>1, <2>2, BoardRowStep DEF IInv
  <2>4. r # NULL
    BY <2>1, NullAssumption DEF Tables
  <2>5. \A a \in Boards : Exists("boards", a)' <=> Exists("boards", a)
    BY <2>2, <2>3, <2>4 DEF Exists
  <2>6. UNCHANGED <<located, injections, exposed, born, installed, allowed, free, mix, spent>>
    BY <1>1 DEF device
  <2>7. /\ story' \in Stories /\ StoryGrows
        /\ "name" \in o.changed => o.vals.name \in story'.clash
    <3>1. story \in Stories
      BY DEF IInv, TypeOK
    <3>. QED BY <1>3, <2>1, <3>1 DEF Stories, StoryGrows, o
  <2>8. /\ calls' \in [Clients -> Calls \cup {NULL}] /\ calls'[c] = NULL
        /\ \A d \in Clients \ {c} : calls'[d] = calls[d]
    BY <1>1, ReturnStep DEF IInv
  <2>9. TypeOK'
    BY <2>3, <2>6, <2>7, <2>8 DEF IInv, TypeOK
  <2>10. \A t \in Tables : \A id \in Uuids(t) : Exists(t, id)' => id \in born[t]
    BY <2>3, <2>5, ZenonT(60) DEF IInv, TableInv, Exists, Uuids
  <2>11. TableInv'
    BY <2>5, <2>6, <2>10 DEF IInv, TypeOK, TableInv, Exposures
  <2>12. CallInv'
    BY <2>6, <2>8, CallsStay DEF IInv
  <2>13. Keeps(c)
    BY <1>1, <2>8, EndKeeps DEF Answered, PluginOps, Busy, Taking
  <2>14. \A d \in Clients : NameKeeps(d) /\ PluginKeeps(d) /\ LocateKeeps(d) /\ PortKeeps(d)
    BY <2>7, <2>8, <2>13, SameKeeps DEF IInv, Keeps
  <2>15. InjectionsStay
    BY <2>5, <2>6 DEF InjectionsStay, RowsOf
  <2>16. InjectionInv'
    BY <2>6, <2>7, <2>14, <2>15, InjectionStays DEF IInv
  <2>17. HasLocation'
    BY <2>5, <2>6, <2>7, <2>14, LocationStays DEF IInv
  <2>18. PortInv'
    BY <2>6, <2>7, <2>14, PortsStay DEF IInv
  <2>19. \A a \in Boards : Exists("boards", a)' =>
           \/ rows'.boards[a].name = rows.boards[a].name
           \/ rows'.boards[a].name \in story'.clash
    BY <2>1, <2>3, <2>7
  <2>20. UniqueName'
    BY <2>5, <2>7, <2>19 DEF IInv, NameInv, UniqueName, StoryGrows
  <2>21. \A n \in Names : ExistsByName(n)' => ExistsByName(n) \/ n \in story'.clash
    BY <2>5, <2>19 DEF ExistsByName, ByName, Uuids
  <2>22. NameInv'
    BY <2>7, <2>14, <2>20, <2>21 DEF IInv, NameInv, NameKeeps, StoryGrows
  <2>. QED BY <2>9, <2>11, <2>12, <2>16, <2>17, <2>18, <2>22 DEF IInv
<1>. QED BY <1>2, <1>3 DEF UpdateBoard

(* A board connects or disconnects: its row keeps its name.                 *)
LEMMA SetStatusInv ==
  ASSUME IInv, NEW b \in Boards, NEW from, NEW to \in Status, SetStatus(b, from, to)
  PROVE  IInv'
<1>. DEFINE r == [rows.boards[b] EXCEPT !.status = to]
<1>1. /\ Exists("boards", b) /\ rows' = [rows EXCEPT !.boards[b] = r]
      /\ spent' = [spent EXCEPT !.toggles = @ + 1]
      /\ UNCHANGED <<located, injections, exposed, born, installed, allowed, free, calls, mix, story>>
  BY DEF SetStatus, device
<1>2. rows.boards[b] \in Row("boards")
  BY <1>1 DEF Exists, IInv, TypeOK, Tables, Uuids
<1>3. r \in Row("boards") /\ r.name = rows.boards[b].name
  BY <1>2 DEF Row
<1>. HIDE DEF r
<1>4. /\ rows' = [t \in Tables |-> rows'[t]]
      /\ \A t \in Tables : rows'[t] \in [Uuids(t) -> Row(t) \cup {NULL}]
      /\ rows'.boards[b] = r /\ \A a \in Boards \ {b} : rows'.boards[a] = rows.boards[a]
      /\ \A t \in Tables \ {"boards"} : rows'[t] = rows[t]
  BY <1>1, <1>3, BoardRowStep DEF IInv
<1>5. r # NULL
  BY <1>3, NullAssumption DEF Tables
<1>6. \A a \in Boards : Exists("boards", a)' <=> Exists("boards", a)
  BY <1>1, <1>4, <1>5 DEF Exists
<1>7. spent' \in [calls : Nat, toggles : Nat, crashes : Nat, serial : Nat] /\ spent'.serial = spent.serial
  BY <1>1 DEF IInv, TypeOK
<1>8. TypeOK'
  BY <1>1, <1>4, <1>7 DEF IInv, TypeOK
<1>9. \A t \in Tables : \A id \in Uuids(t) : Exists(t, id)' => id \in born[t]
  <2>1. TableInv
    BY DEF IInv
  <2>. SUFFICES ASSUME NEW t \in Tables, NEW id \in Uuids(t), Exists(t, id)'
                PROVE  Exists(t, id)
    BY <2>1 DEF TableInv
  <2>2. CASE t = "boards" BY <1>6, <2>2 DEF Uuids
  <2>3. CASE t # "boards" BY <1>4, <2>3 DEF Exists
  <2>. QED BY <2>2, <2>3
<1>10. TableInv'
  BY <1>1, <1>6, <1>7, <1>9 DEF IInv, TypeOK, TableInv, Exposures
<1>11. CallInv'
  BY <1>1, CallsStay DEF IInv
<1>12. StoryGrows
  BY <1>1 DEF StoryGrows
<1>13. \A d \in Clients : NameKeeps(d) /\ PluginKeeps(d) /\ LocateKeeps(d) /\ PortKeeps(d)
  BY <1>1, <1>12, SameKeeps DEF IInv, Keeps
<1>14. BoardsStay /\ InjectionsStay
  BY <1>1, <1>3, <1>4, <1>6 DEF BoardsStay, InjectionsStay, RowsOf
<1>15. NameInv'
  BY <1>12, <1>13, <1>14, NameStays DEF IInv
<1>16. InjectionInv'
  BY <1>1, <1>7, <1>12, <1>13, <1>14, InjectionStays DEF IInv
<1>17. HasLocation'
  BY <1>1, <1>6, <1>12, <1>13, LocationStays DEF IInv
<1>18. PortInv'
  BY <1>1, <1>12, <1>13, PortsStay DEF IInv
<1>. QED BY <1>8, <1>10, <1>11, <1>15, <1>16, <1>17, <1>18 DEF IInv

(* A board goes, with what refers to it; what was exposed since the handler *)
(* has listed it is left behind.                                            *)
LEMMA DestroyBoardInv ==
  ASSUME IInv, NEW c \in Clients, DestroyBoard(c)
  PROVE  IInv'
<1>. DEFINE b    == calls[c].board
            late == {e \in exposed : e.board = b} \ calls[c].seen
<1>1. /\ calls[c] # NULL /\ calls[c].op = "destroyBoard" /\ calls[c].at = "allow" /\ Return(c)
      /\ calls[c].list = {} /\ UNCHANGED <<device, mix, spent>>
  BY DEF DestroyBoard, Busy
<1>2. CASE UNCHANGED <<tables, story>>
  BY <1>1, <1>2, EndInv DEF PluginOps
<1>3. CASE /\ Exists("boards", b) /\ DestroyBoardRow(b)
           /\ story' = [story EXCEPT !.stray = @ \cup {e.port : e \in late}]
  <2>1. b \in Boards
    <3>1. calls[c] \in DestroyBoards
      BY <1>1, CallKinds DEF IInv, TypeOK
    <3>. QED BY <3>1 DEF DestroyBoards
  <2>2. /\ rows' = [rows EXCEPT !.boards[b] = NULL] /\ located' = located \ {b}
        /\ injections' = {i \in injections : i.board # b}
        /\ exposed' = {e \in exposed : e.board # b}
        /\ UNCHANGED <<born, installed, allowed, free, mix, spent>>
    BY <1>1, <1>3 DEF DestroyBoardRow, DeleteRow, device
  <2>3. /\ story' \in Stories /\ StoryGrows
        /\ \A e \in exposed : e.board = b /\ e \notin calls[c].seen => e.port \in story'.stray
    <3>1. story \in Stories /\ {e.port : e \in late} \subseteq Ports
      BY DEF IInv, TypeOK, Exposures
    <3>. QED BY <1>3, <3>1 DEF Stories, StoryGrows
  <2>. HIDE DEF b, late
  <2>4. /\ rows' = [t \in Tables |-> rows'[t]]
        /\ \A t \in Tables : rows'[t] \in [Uuids(t) -> Row(t) \cup {NULL}]
        /\ rows'.boards[b] = NULL /\ \A a \in Boards \ {b} : rows'.boards[a] = rows.boards[a]
        /\ \A t \in Tables \ {"boards"} : rows'[t] = rows[t]
    BY <2>1, <2>2, BoardRowStep DEF IInv
  <2>5. \A a \in Boards : Exists("boards", a)' <=> (Exists("boards", a) /\ a # b)
    BY <2>4 DEF Exists
  <2>6. /\ calls' \in [Clients -> Calls \cup {NULL}] /\ calls'[c] = NULL
        /\ \A d \in Clients \ {c} : calls'[d] = calls[d]
    BY <1>1, ReturnStep DEF IInv
  <2>7. TypeOK'
    BY <2>2, <2>3, <2>4, <2>6 DEF IInv, TypeOK
  <2>8. \A t \in Tables : \A id \in Uuids(t) : Exists(t, id)' => id \in born[t]
    BY <2>4, <2>5, ZenonT(60) DEF IInv, TableInv, Exists, Uuids
  <2>9. TableInv'
    BY <2>2, <2>5, <2>8 DEF IInv, TypeOK, TableInv, Exposures
  <2>10. CallInv'
    BY <2>2, <2>6, CallsStay DEF IInv
  <2>11. Keeps(c)
    BY <1>1, <2>6, EndKeeps DEF Answered, PluginOps, Busy, Taking
  <2>12. \A d \in Clients : NameKeeps(d) /\ PluginKeeps(d) /\ LocateKeeps(d) /\ PortKeeps(d)
    BY <2>3, <2>6, <2>11, SameKeeps DEF IInv, Keeps
  <2>13. BoardsStay
    BY <2>4, <2>5 DEF BoardsStay
  <2>14. InjectionsStay
    <3>1. \A a \in Boards, p \in Plugins : a # b => RowsOf(a, p)' = RowsOf(a, p)
      BY <2>2 DEF RowsOf
    <3>. QED BY <2>2, <2>5, <3>1 DEF InjectionsStay
  <2>15. NameInv'
    BY <2>3, <2>12, <2>13, NameStays DEF IInv
  <2>16. InjectionInv'
    BY <2>2, <2>3, <2>12, <2>14, InjectionStays DEF IInv
  <2>17. HasLocation'
    BY <2>2, <2>3, <2>5, <2>12 DEF IInv, HasLocation, LocateKeeps, StoryGrows
  <2>18. PortInv'
    <3>1. ClaimInv'
      BY <2>2, <2>12 DEF IInv, PortInv, ClaimInv, PortKeeps
    <3>2. \A d \in Clients : calls'[d] # NULL => d # c /\ calls'[d] = calls[d]
      BY <2>6
    <3>3. \A d \in Clients : Taking(d)' => Taking(d) /\ calls'[d].port = calls[d].port
      BY <2>12 DEF PortKeeps
    <3>4. ListInv'
      BY <2>2, <3>2, <3>3 DEF IInv, PortInv, ListInv
    <3>5. EntryInv'
      <4>. SUFFICES ASSUME NEW e \in allowed, e[2] \notin story'.stray,
                           ~ \E x \in exposed' : x.board = e[1] /\ x.port = e[2]
                    PROVE  \E d \in Clients : /\ Taking(d)' /\ calls'[d].board = e[1]
                                              /\ calls'[d].port = e[2]
        BY <2>2 DEF EntryInv
      <4>1. CASE \E d \in Clients : Taking(d) /\ calls[d].board = e[1] /\ calls[d].port = e[2]
        BY <2>12, <4>1 DEF PortKeeps
      <4>2. CASE \E x \in exposed : x.board = e[1] /\ x.port = e[2]
        <5>1. PICK x \in exposed : x.board = e[1] /\ x.port = e[2]
          BY <4>2
        <5>2. x.board = b
          BY <2>2, <5>1
        <5>3. x \in calls[c].seen /\ x \notin calls[c].list
          BY <1>1, <2>3, <5>1, <5>2
        <5>4. <<x.board, x.port>> \notin allowed
          BY <1>1, <5>3 DEF IInv, PortInv, ListInv
        <5>5. e = <<e[1], e[2]>>
          BY DEF IInv, TypeOK
        <5>. QED BY <5>1, <5>4, <5>5
      <4>3. e[2] \notin story.stray
        BY <2>3 DEF StoryGrows
      <4>. QED BY <4>1, <4>2, <4>3 DEF IInv, PortInv, EntryInv
    <3>. QED BY <3>1, <3>4, <3>5 DEF PortInv
  <2>. QED BY <2>7, <2>9, <2>10, <2>15, <2>16, <2>17, <2>18 DEF IInv
<1>. QED BY <1>2, <1>3 DEF DestroyBoard
-----------------------------------------------------------------------------
(* Services and the allow list                                               *)
(* A step of a handler that enables a service or destroys a board, and that *)
(* may change what is exposed, allowed or free.                             *)
LEMMA ServiceStep ==
  ASSUME IInv, NEW c \in Clients, calls[c] # NULL, calls[c].op \in {"enableService", "destroyBoard"},
         calls' \in [Clients -> Calls \cup {NULL}], \A d \in Clients \ {c} : calls'[d] = calls[d],
         calls'[c] # NULL => calls'[c].op = calls[c].op /\ calls'[c].board = calls[c].board,
         UNCHANGED <<rows, located, injections, born, installed, mix, spent>>,
         exposed' \subseteq Exposures, \A x \in exposed' : Exists("boards", x.board),
         allowed' \subseteq Boards \X Ports, free' \subseteq Ports,
         story' \in Stories, StoryGrows, PortInv'
  PROVE  IInv'
<1>1. TypeOK'
  BY DEF IInv, TypeOK
<1>2. TableInv'
  BY DEF IInv, TableInv, Exists
<1>3. CallInv'
  BY DEF IInv, CallInv, DeviceOps
<1>4. NameKeeps(c) /\ PluginKeeps(c) /\ LocateKeeps(c)
  BY DEF NameKeeps, PluginKeeps, LocateKeeps, Busy, Answered, PluginOps
<1>5. \A d \in Clients : NameKeeps(d) /\ PluginKeeps(d) /\ LocateKeeps(d)
  BY <1>4, SameKeeps DEF IInv, Keeps
<1>6. BoardsStay /\ InjectionsStay
  BY DEF BoardsStay, InjectionsStay, Exists, RowsOf
<1>7. NameInv'
  BY <1>5, <1>6, NameStays DEF IInv
<1>8. InjectionInv'
  BY <1>5, <1>6, InjectionStays DEF IInv
<1>9. HasLocation'
  BY <1>5, <1>6, LocationStays DEF IInv, BoardsStay
<1>. QED BY <1>1, <1>2, <1>3, <1>7, <1>8, <1>9 DEF IInv

(* The services calls are on, and the lists of destroy_board.               *)
LEMMA ServiceCalls ==
  ASSUME TypeOK, NEW c \in Clients, calls[c] # NULL
  PROVE  /\ calls[c].op = "enableService" =>
              /\ calls[c].board \in Boards /\ calls[c].service \in Services
              /\ calls[c].port \in Ports \cup {NULL}
         /\ calls[c].op = "destroyBoard" => calls[c].board \in Boards /\ calls[c].list \subseteq Exposures
<1>1. calls[c] \in Calls
  BY DEF TypeOK
<1>2. calls[c].op = "enableService" => calls[c] \in EnableCalls
  BY <1>1, CallKinds
<1>3. calls[c].op = "destroyBoard" => calls[c] \in DestroyBoards
  BY <1>1, CallKinds
<1>. QED BY <1>2, <1>3 DEF EnableCalls, DestroyBoards

(* A port that was free has no claim.                                       *)
LEMMA EnableServiceInv ==
  ASSUME IInv, NEW c \in Clients, EnableService(c)
  PROVE  IInv'
<1>1. /\ calls[c] # NULL /\ calls[c].op = "enableService" /\ calls[c].at = "read"
      /\ UNCHANGED <<tables, installed, allowed, mix, spent, story>>
  BY DEF EnableService, Busy
<1>2. CASE Return(c) /\ UNCHANGED free
  BY <1>1, <1>2, EndInv DEF PluginOps, device
<1>3. ASSUME NEW q \in free, free' = free \ {q},
             calls' = [calls EXCEPT ![c].at = "allow", ![c].port = q]
      PROVE  IInv'
  <2>1. q \in Ports /\ q # NULL
    BY <1>3, InventoryAssumption DEF IInv, TypeOK
  <2>2. /\ calls' \in [Clients -> Calls \cup {NULL}] /\ calls'[c] # NULL
        /\ calls'[c].op = "enableService" /\ calls'[c].at = "allow" /\ calls'[c].port = q
        /\ calls'[c].board = calls[c].board
        /\ \A d \in Clients \ {c} : calls'[d] = calls[d]
    <3>. DEFINE m == [calls[c] EXCEPT !.at = "allow", !.port = q]
    <3>1. calls[c] \in EnableCalls
      BY <1>1, CallKinds DEF IInv, TypeOK
    <3>2. m \in EnableCalls /\ m.at = "allow" /\ m.port = q /\ m.board = calls[c].board
          /\ m.op = "enableService"
      BY <2>1, <3>1 DEF EnableCalls, Labels
    <3>3. m \in Calls /\ m # NULL
      BY <3>2, NullAssumption DEF Calls
    <3>4. calls \in [Clients -> Calls \cup {NULL}] /\ calls' = [calls EXCEPT ![c] = m]
      BY <1>3 DEF IInv, TypeOK
    <3>. HIDE DEF m
    <3>. QED BY <3>2, <3>3, <3>4
  <2>3. UNCHANGED <<rows, located, injections, exposed, born, installed, allowed, mix, spent, story>>
    BY <1>1 DEF tables
  <2>4. ~Taking(c) /\ Taking(c)' /\ \A d \in Clients \ {c} : Taking(d)' <=> Taking(d)
    BY <1>1, <2>1, <2>2 DEF Taking, IInv, PortInv, ClaimInv
  <2>5. ClaimInv'
    <3>1. \A x \in exposed : x.port \notin free' /\ x.port # q
      BY <1>3 DEF IInv, PortInv, ClaimInv
    <3>2. \A d \in Clients \ {c} : Taking(d) => calls[d].port # q /\ calls[d].port \notin free'
      BY <1>3 DEF IInv, PortInv, ClaimInv
    <3>3. ASSUME NEW d \in Clients, Taking(d)'
          PROVE  /\ calls'[d].port \notin free'
                 /\ \A x \in exposed : x.port # calls'[d].port
                 /\ \A e \in Clients : Taking(e)' /\ calls'[e].port = calls'[d].port => e = d
      BY <1>3, <2>2, <2>4, <3>1, <3>2, <3>3 DEF IInv, PortInv, ClaimInv
    <3>4. \A d \in Clients : calls'[d] # NULL /\ calls'[d].op = "enableService" =>
            /\ calls'[d].at \in {"read", "allow", "execute", "invoke", "record", "orphan"}
            /\ calls'[d].at = "read" <=> calls'[d].port = NULL
            /\ calls'[d].at = "orphan" => calls'[d].port \in story'.stray
      BY <2>1, <2>2, <2>3 DEF IInv, PortInv, ClaimInv
    <3>. QED BY <2>3, <3>1, <3>3, <3>4 DEF ClaimInv
  <2>6. ListInv'
    <3>. SUFFICES ASSUME NEW d \in Clients, calls'[d] # NULL, calls'[d].op = "destroyBoard"
                  PROVE  /\ calls'[d].list \subseteq calls'[d].seen
                         /\ \A x \in calls'[d].seen :
                              /\ x.board = calls'[d].board /\ x.port \notin free'
                              /\ \A e \in Clients : Taking(e)' => calls'[e].port # x.port
                              /\ x \notin calls'[d].list => <<x.board, x.port>> \notin allowed'
      BY DEF ListInv
    <3>1. d # c /\ calls'[d] = calls[d]
      BY <2>2
    <3>. QED BY <1>3, <2>2, <2>3, <2>4, <3>1 DEF IInv, PortInv, ListInv
  <2>7. EntryInv'
    BY <2>2, <2>3, <2>4 DEF IInv, PortInv, EntryInv
  <2>8. story' \in Stories /\ StoryGrows /\ exposed' \subseteq Exposures
        /\ allowed' \subseteq Boards \X Ports /\ free' \subseteq Ports
        /\ \A x \in exposed' : Exists("boards", x.board)
    BY <1>3, <2>3 DEF StoryGrows, IInv, TypeOK, TableInv
  <2>. QED BY <1>1, <2>2, <2>3, <2>5, <2>6, <2>7, <2>8, ServiceStep DEF PortInv
<1>. QED BY <1>2, <1>3 DEF EnableService

(* The entry is in the allow list before the row of the service.            *)
LEMMA AddAllowedInv ==
  ASSUME IInv, NEW c \in Clients, AddAllowed(c)
  PROVE  IInv'
<1>1. /\ calls[c] # NULL /\ calls[c].op = "enableService" /\ calls[c].at = "allow" /\ Goto(c, "execute")
      /\ allowed' = allowed \cup {<<calls[c].board, calls[c].port>>}
      /\ UNCHANGED <<rows, located, injections, exposed, born, installed, free, mix, spent, story>>
  BY DEF AddAllowed, Busy, tables
<1>2. /\ calls' \in [Clients -> Calls \cup {NULL}]
      /\ calls'[c] # NULL /\ calls'[c].at = "execute" /\ Moved(calls[c], calls'[c])
      /\ \A d \in Clients \ {c} : calls'[d] = calls[d]
  BY <1>1, GotoStep DEF IInv, Labels
<1>3. calls'[c].op = "enableService" /\ calls'[c].board = calls[c].board /\ calls'[c].port = calls[c].port
  BY <1>1, <1>2 DEF Moved, DeviceOps
<1>4. Taking(c) /\ calls[c].board \in Boards /\ calls[c].port \in Ports
  BY <1>1, ServiceCalls DEF Taking, IInv, PortInv, ClaimInv
<1>5. \A d \in Clients :
        /\ Taking(d)' <=> Taking(d)
        /\ Taking(d) => calls'[d].port = calls[d].port /\ calls'[d].board = calls[d].board
  BY <1>1, <1>2, <1>3 DEF Taking
<1>10. ClaimInv /\ ListInv /\ EntryInv
  BY DEF IInv, PortInv
<1>6. ClaimInv'
  <2>1. \A d \in Clients : calls'[d] # NULL /\ calls'[d].op = "enableService" =>
            /\ calls'[d].at \in {"read", "allow", "execute", "invoke", "record", "orphan"}
            /\ calls'[d].at = "read" <=> calls'[d].port = NULL
            /\ calls'[d].at = "orphan" => calls'[d].port \in story'.stray
    BY <1>1, <1>2, <1>3, <1>4 DEF IInv, PortInv, ClaimInv, Taking
  <2>2. \A d \in Clients : Taking(d)' =>
          /\ calls'[d].port \notin free /\ \A x \in exposed : x.port # calls'[d].port
          /\ \A e \in Clients : Taking(e)' /\ calls'[e].port = calls'[d].port => e = d
    BY <1>5, <1>10 DEF ClaimInv
  <2>. QED BY <1>1, <1>10, <2>1, <2>2 DEF ClaimInv
<1>7. ListInv'
  <2>. SUFFICES ASSUME NEW d \in Clients, calls'[d] # NULL, calls'[d].op = "destroyBoard"
                PROVE  /\ calls'[d].list \subseteq calls'[d].seen
                       /\ \A x \in calls'[d].seen :
                            /\ x.board = calls'[d].board /\ x.port \notin free
                            /\ \A e \in Clients : Taking(e)' => calls'[e].port # x.port
                            /\ x \notin calls'[d].list => <<x.board, x.port>> \notin allowed'
    BY <1>1 DEF ListInv
  <2>1. d # c /\ calls'[d] = calls[d]
    BY <1>2, <1>3
  <2>2. ASSUME NEW x \in calls[d].seen
        PROVE  /\ x.board = calls[d].board /\ x.port \notin free
               /\ x.port # calls[c].port /\ \A e \in Clients : Taking(e) => calls[e].port # x.port
               /\ x \notin calls[d].list => <<x.board, x.port>> \notin allowed
    BY <1>4, <1>10, <2>1, <2>2 DEF ListInv
  <2>3. calls[d].list \subseteq calls[d].seen
    BY <1>10, <2>1 DEF ListInv
  <2>. QED BY <1>1, <1>5, <2>1, <2>2, <2>3
<1>8. EntryInv'
  <2>. SUFFICES ASSUME NEW e \in allowed', e[2] \notin story.stray,
                       ~ \E x \in exposed : x.board = e[1] /\ x.port = e[2]
                PROVE  \E d \in Clients : Taking(d)' /\ calls'[d].board = e[1] /\ calls'[d].port = e[2]
    BY <1>1 DEF EntryInv
  <2>1. CASE e = <<calls[c].board, calls[c].port>>
    BY <1>3, <1>4, <1>5, <2>1
  <2>2. CASE e \in allowed
    <3>1. PICK d \in Clients : Taking(d) /\ calls[d].board = e[1] /\ calls[d].port = e[2]
      BY <1>10, <2>2 DEF EntryInv
    <3>. QED BY <1>5, <3>1
  <2>. QED BY <1>1, <2>1, <2>2
<1>9. story' \in Stories /\ StoryGrows /\ exposed' \subseteq Exposures
      /\ allowed' \subseteq Boards \X Ports /\ free' \subseteq Ports
      /\ \A x \in exposed' : Exists("boards", x.board)
  BY <1>1, <1>4 DEF StoryGrows, IInv, TypeOK, TableInv
<1>. QED BY <1>1, <1>2, <1>3, <1>6, <1>7, <1>8, <1>9, ServiceStep DEF PortInv

(* The port of a call is the one of the row it creates.                     *)
LEMMA CreateExposedInv ==
  ASSUME IInv, NEW c \in Clients, CreateExposed(c)
  PROVE  IInv'
<1>. DEFINE row == [board |-> calls[c].board, service |-> calls[c].service, port |-> calls[c].port]
<1>1. /\ calls[c] # NULL /\ calls[c].op = "enableService" /\ calls[c].at = "record" /\ Return(c)
      /\ UNCHANGED <<rows, located, injections, born, device, mix, spent>>
  BY DEF CreateExposed, Busy, Raise
<1>2. CASE Raise(c) /\ UNCHANGED exposed
  BY <1>1, <1>2, RaiseInv DEF tables
<1>3. CASE Exists("boards", calls[c].board) /\ exposed' = exposed \cup {row} /\ UNCHANGED story
  <2>1. /\ calls' \in [Clients -> Calls \cup {NULL}] /\ calls'[c] = NULL
        /\ \A d \in Clients \ {c} : calls'[d] = calls[d]
    BY <1>1, ReturnStep DEF IInv
  <2>2. Taking(c) /\ calls[c].board \in Boards /\ calls[c].port \in Ports /\ row \in Exposures
    BY <1>1, ServiceCalls DEF Taking, IInv, PortInv, ClaimInv, Exposures
  <2>3. UNCHANGED <<rows, located, injections, born, installed, allowed, free, mix, spent, story>>
    BY <1>1, <1>3 DEF device
  <2>4. \A d \in Clients : /\ Taking(d)' <=> (Taking(d) /\ d # c)
                           /\ Taking(d)' => calls'[d] = calls[d]
    BY <2>1 DEF Taking
  <2>5. ClaimInv /\ ListInv /\ EntryInv
    BY DEF IInv, PortInv
  <2>6. ClaimInv'
    <3>1. \A x \in exposed' : x.port \notin free
      BY <1>3, <2>2, <2>5 DEF ClaimInv
    <3>2. \A d \in Clients : Taking(d)' =>
            /\ calls'[d].port \notin free /\ \A x \in exposed' : x.port # calls'[d].port
            /\ \A e \in Clients : Taking(e)' /\ calls'[e].port = calls'[d].port => e = d
      BY <1>3, <2>2, <2>4, <2>5 DEF ClaimInv
    <3>3. \A d \in Clients : calls'[d] # NULL => calls'[d] = calls[d]
      BY <2>1
    <3>. QED BY <2>3, <2>5, <3>1, <3>2, <3>3 DEF ClaimInv
  <2>7. ListInv'
    BY <2>1, <2>3, <2>4, <2>5 DEF ListInv
  <2>8. EntryInv'
    <3>. SUFFICES ASSUME NEW e \in allowed, e[2] \notin story.stray,
                         ~ \E x \in exposed' : x.board = e[1] /\ x.port = e[2]
                  PROVE  \E d \in Clients : Taking(d)' /\ calls'[d].board = e[1] /\ calls'[d].port = e[2]
      BY <2>3 DEF EntryInv
    <3>1. PICK d \in Clients : Taking(d) /\ calls[d].board = e[1] /\ calls[d].port = e[2]
      BY <1>3, <2>5 DEF EntryInv
    <3>2. row \in exposed' /\ row.board = calls[c].board /\ row.port = calls[c].port
      BY <1>3
    <3>. HIDE DEF row
    <3>3. d # c
      BY <3>1, <3>2
    <3>. QED BY <2>4, <3>1, <3>3
  <2>9. story' \in Stories /\ StoryGrows /\ exposed' \subseteq Exposures
        /\ allowed' \subseteq Boards \X Ports /\ free' \subseteq Ports
        /\ \A x \in exposed' : Exists("boards", x.board)
    BY <1>3, <2>2, <2>3 DEF StoryGrows, IInv, TypeOK, TableInv
  <2>. QED BY <1>1, <2>1, <2>3, <2>6, <2>7, <2>8, <2>9, ServiceStep DEF PortInv
<1>. QED BY <1>2, <1>3 DEF CreateExposed

(* The agent does not answer: the handler raises, and what it was about to  *)
(* change may have changed.                                                 *)
LEMMA AgentUnreachableInv ==
  ASSUME IInv, NEW c \in Clients, AgentUnreachable(c)
  PROVE  IInv'
<1>1. /\ calls[c] # NULL /\ calls[c].at = "allow" /\ Raise(c)
      /\ calls[c].op \in {"enableService", "destroyBoard"}
      /\ UNCHANGED <<rows, located, injections, exposed, born, installed, free, mix, spent>>
  BY DEF AgentUnreachable, tables
<1>2. /\ calls' \in [Clients -> Calls \cup {NULL}] /\ calls'[c] = NULL
      /\ story' \in Stories /\ StoryGrows /\ \A d \in Clients : PortKeeps(d)
  BY <1>1, RaiseKeeps DEF IInv, Keeps
<1>3. \A d \in Clients \ {c} : calls'[d] = calls[d]
  BY <1>1, ReturnStep DEF IInv, Raise
<1>4. allowed' \subseteq allowed
      \/ /\ allowed' = allowed \cup {<<calls[c].board, calls[c].port>>}
         /\ Taking(c) /\ calls[c].board \in Boards /\ calls[c].port \in Ports
         /\ calls[c].port \in story'.stray
  <2>1. CASE calls[c].op = "enableService"
    <3>1. Taking(c) /\ calls[c].board \in Boards /\ calls[c].port \in Ports
      BY <1>1, <2>1, ServiceCalls DEF Taking, IInv, PortInv, ClaimInv
    <3>2. calls[c].port \in story'.stray
      BY <1>1, <2>1, CutFacts DEF IInv, Raise
    <3>. QED BY <2>1, <3>1, <3>2 DEF AgentUnreachable
  <2>2. CASE calls[c].op = "destroyBoard"
    BY <2>2 DEF AgentUnreachable
  <2>. QED BY <1>1, <2>1, <2>2
<1>5. ClaimInv /\ ListInv /\ EntryInv
  BY DEF IInv, PortInv
<1>6. ClaimInv'
  BY <1>1, <1>2, <1>5 DEF ClaimInv, PortKeeps
<1>7. ListInv'
  <2>. SUFFICES ASSUME NEW d \in Clients, calls'[d] # NULL, calls'[d].op = "destroyBoard"
                PROVE  /\ calls'[d].list \subseteq calls'[d].seen
                       /\ \A x \in calls'[d].seen :
                            /\ x.board = calls'[d].board /\ x.port \notin free
                            /\ \A e \in Clients : Taking(e)' => calls'[e].port # x.port
                            /\ x \notin calls'[d].list => <<x.board, x.port>> \notin allowed'
    BY <1>1 DEF ListInv
  <2>1. d # c /\ calls'[d] = calls[d] /\ calls[d].list \subseteq calls[d].seen
    BY <1>2, <1>3, <1>5 DEF ListInv
  <2>2. ASSUME NEW x \in calls[d].seen
        PROVE  /\ x.board = calls[d].board /\ x.port \notin free
               /\ \A e \in Clients : Taking(e) => calls[e].port # x.port
               /\ x \notin calls[d].list => <<x.board, x.port>> \notin allowed
    BY <1>5, <2>1, <2>2 DEF ListInv
  <2>3. \A e \in Clients : Taking(e)' => Taking(e) /\ calls'[e].port = calls[e].port
    BY <1>2 DEF PortKeeps
  <2>. QED BY <1>4, <2>1, <2>2, <2>3
<1>8. EntryInv'
  BY <1>1, <1>2, <1>4, <1>5 DEF EntryInv, PortKeeps, StoryGrows
<1>9. exposed' \subseteq Exposures /\ allowed' \subseteq Boards \X Ports /\ free' \subseteq Ports
      /\ \A x \in exposed' : Exists("boards", x.board)
  BY <1>1, <1>4 DEF IInv, TypeOK, TableInv
<1>. QED BY <1>1, <1>2, <1>3, <1>6, <1>7, <1>8, <1>9, ServiceStep DEF PortInv

(* What destroy_board lists is exposed; it removes it from the allow list   *)
(* one by one.                                                              *)
LEMMA ListStep ==
  ASSUME IInv, NEW c \in Clients, calls[c] # NULL, calls[c].op = "destroyBoard",
         NEW list \in SUBSET Exposures, NEW seen \in SUBSET Exposures, NEW m,
         m = [calls[c] EXCEPT !.at = "allow", !.list = list, !.seen = seen],
         calls' = [calls EXCEPT ![c] = m],
         list \subseteq seen, allowed' \subseteq allowed,
         \A x \in seen : /\ x.board = calls[c].board /\ x.port \notin free
                         /\ \A e \in Clients : Taking(e) => calls[e].port # x.port
                         /\ x \notin list => <<x.board, x.port>> \notin allowed',
         UNCHANGED <<tables, installed, free, mix, spent, story>>
  PROVE  IInv'
<1>1. /\ calls' \in [Clients -> Calls \cup {NULL}] /\ calls'[c] # NULL
      /\ calls'[c].op = "destroyBoard" /\ calls'[c].board = calls[c].board
      /\ calls'[c].list = list /\ calls'[c].seen = seen
      /\ \A d \in Clients \ {c} : calls'[d] = calls[d]
  <2>1. calls[c] \in DestroyBoards
    BY CallKinds DEF IInv, TypeOK
  <2>2. m \in DestroyBoards /\ m.op = "destroyBoard" /\ m.board = calls[c].board
        /\ m.list = list /\ m.seen = seen
    BY <2>1 DEF DestroyBoards, Labels
  <2>3. m \in Calls /\ m # NULL
    BY <2>2, NullAssumption DEF Calls
  <2>4. calls \in [Clients -> Calls \cup {NULL}]
    BY DEF IInv, TypeOK
  <2>. QED BY <2>2, <2>3, <2>4
<1>2. UNCHANGED <<rows, located, injections, exposed, born, installed, free, mix, spent, story>>
  BY DEF tables
<1>3. \A d \in Clients : /\ Taking(d)' <=> Taking(d)
                         /\ Taking(d) => calls'[d] = calls[d]
  BY <1>1 DEF Taking
<1>4. ClaimInv /\ ListInv /\ EntryInv
  BY DEF IInv, PortInv
<1>5. \A d \in Clients : calls'[d] # NULL /\ calls'[d].op = "enableService" => calls'[d] = calls[d]
  BY <1>1
<1>6. ClaimInv'
  BY <1>2, <1>3, <1>4, <1>5 DEF ClaimInv
<1>7. ListInv'
  <2>. SUFFICES ASSUME NEW d \in Clients, calls'[d] # NULL, calls'[d].op = "destroyBoard"
                PROVE  /\ calls'[d].list \subseteq calls'[d].seen
                       /\ \A x \in calls'[d].seen :
                            /\ x.board = calls'[d].board /\ x.port \notin free
                            /\ \A e \in Clients : Taking(e)' => calls'[e].port # x.port
                            /\ x \notin calls'[d].list => <<x.board, x.port>> \notin allowed'
    BY <1>2 DEF ListInv
  <2>1. CASE d = c
    BY <1>1, <1>3, <2>1
  <2>2. CASE d # c
    BY <1>1, <1>3, <1>4, <2>2 DEF ListInv
  <2>. QED BY <2>1, <2>2
<1>8. EntryInv'
  BY <1>2, <1>3, <1>4 DEF EntryInv
<1>9. story' \in Stories /\ StoryGrows /\ exposed' \subseteq Exposures
      /\ allowed' \subseteq Boards \X Ports /\ free' \subseteq Ports
      /\ \A x \in exposed' : Exists("boards", x.board)
  BY <1>2 DEF StoryGrows, IInv, TypeOK, TableInv
<1>. QED BY <1>1, <1>2, <1>6, <1>7, <1>8, <1>9, ServiceStep DEF PortInv

(* destroy_board reads what the board exposes.                              *)
LEMMA ListExposedInv ==
  ASSUME IInv, NEW c \in Clients, ListExposed(c)
  PROVE  IInv'
<1>. DEFINE list == {e \in exposed : e.board = calls[c].board}
            seen == {e \in exposed : e.board = calls[c].board}
            m    == [calls[c] EXCEPT !.at = "allow", !.list = list, !.seen = seen]
<1>1. /\ calls[c] # NULL /\ calls[c].op = "destroyBoard" /\ calls' = [calls EXCEPT ![c] = m]
      /\ UNCHANGED <<tables, installed, free, mix, spent, story>> /\ allowed' \subseteq allowed
  BY DEF ListExposed, Busy, device, IInv, TypeOK
<1>2. list \in SUBSET Exposures /\ seen \in SUBSET Exposures /\ list \subseteq seen
  BY DEF IInv, TypeOK
<1>3. \A x \in seen : /\ x.board = calls[c].board /\ x.port \notin free
                      /\ \A e \in Clients : Taking(e) => calls[e].port # x.port
                      /\ x \notin list => <<x.board, x.port>> \notin allowed'
  BY DEF IInv, PortInv, ClaimInv
<1>4. m = [calls[c] EXCEPT !.at = "allow", !.list = list, !.seen = seen]
  OBVIOUS
<1>. HIDE DEF list, seen, m
<1>. QED BY <1>1, <1>2, <1>3, <1>4, ListStep, ZenonT(60)

(* It removes one entry after the other.                                    *)
LEMMA RemoveAllowedInv ==
  ASSUME IInv, NEW c \in Clients, RemoveAllowed(c)
  PROVE  IInv'
<1>1. PICK e \in calls[c].list :
        /\ allowed' = allowed \ {<<e.board, e.port>>}
        /\ calls' = [calls EXCEPT ![c].list = calls[c].list \ {e}]
  BY DEF RemoveAllowed
<1>2. /\ calls[c] # NULL /\ calls[c].op = "destroyBoard" /\ calls[c].at = "allow"
      /\ UNCHANGED <<tables, installed, free, mix, spent, story>>
  BY DEF RemoveAllowed, Busy
<1>3. calls[c] \in DestroyBoards
  BY <1>2, CallKinds DEF IInv, TypeOK
<1>. DEFINE list == calls[c].list \ {e}
            seen == calls[c].seen
            m    == [calls[c] EXCEPT !.at = "allow", !.list = list, !.seen = seen]
<1>4. m = [calls[c] EXCEPT !.list = list]
  BY <1>2, <1>3 DEF DestroyBoards
<1>5. calls' = [calls EXCEPT ![c] = m]
  BY <1>1, <1>4 DEF IInv, TypeOK
<1>6. list \in SUBSET Exposures /\ seen \in SUBSET Exposures
  BY <1>3 DEF DestroyBoards
<1>7. /\ list \subseteq seen /\ allowed' \subseteq allowed
      /\ \A x \in seen : /\ x.board = calls[c].board /\ x.port \notin free
                         /\ \A d \in Clients : Taking(d) => calls[d].port # x.port
                         /\ x \notin list => <<x.board, x.port>> \notin allowed'
  BY <1>1, <1>2 DEF IInv, PortInv, ListInv
<1>8. m = [calls[c] EXCEPT !.at = "allow", !.list = list, !.seen = seen]
  OBVIOUS
<1>. HIDE DEF list, seen, m
<1>. QED BY <1>2, <1>5, <1>6, <1>7, <1>8, ListStep, ZenonT(60)
-----------------------------------------------------------------------------
(* Plugins                                                                   *)
(* Steps of one client. Its call is on the plugin and the board it was on.  *)
OnlyCall(c) ==
  /\ calls[c] # NULL
  /\ \A d \in Clients \ {c} : calls'[d] = calls[d]
  /\ calls'[c] # NULL =>
       /\ calls'[c].op = calls[c].op /\ calls'[c].board = calls[c].board
       /\ calls[c].op \in PluginOps => calls'[c].plugin = calls[c].plugin

(* A step of a handler that works on a board, and that may change what the  *)
(* board holds and what is recorded of it.                                  *)
LEMMA PluginStep ==
  ASSUME IInv, NEW c \in Clients, OnlyCall(c), calls[c].op \in DeviceOps \ {"enableService"},
         calls' \in [Clients -> Calls \cup {NULL}], PortKeeps(c),
         UNCHANGED <<rows, located, exposed, born, allowed, free, mix>>,
         injections' \subseteq Injections, installed' \in [Boards -> SUBSET Plugins],
         spent' \in [calls : Nat, toggles : Nat, crashes : Nat, serial : Nat],
         \A b \in Boards : b \notin born.boards => installed'[b] = {},
         \A i \in injections' : i.id < spent'.serial,
         \A i, j \in injections' : i.id = j.id => i = j,
         story' \in Stories, StoryGrows, InjectionInv'
  PROVE  IInv'
<1>1. TypeOK'
  BY DEF IInv, TypeOK
<1>2. TableInv'
  BY DEF IInv, TableInv, Exists
<1>3. CallInv'
  BY DEF IInv, CallInv, OnlyCall, DeviceOps, PluginOps
<1>4. NameKeeps(c) /\ LocateKeeps(c)
  BY DEF NameKeeps, LocateKeeps, Busy, DeviceOps, PluginOps, OnlyCall
<1>5. \A d \in Clients : NameKeeps(d) /\ LocateKeeps(d) /\ PortKeeps(d)
  BY <1>4, SameKeeps DEF IInv, Keeps, OnlyCall
<1>6. BoardsStay
  BY DEF BoardsStay, Exists
<1>7. NameInv'
  BY <1>5, <1>6, NameStays DEF IInv
<1>8. HasLocation'
  BY <1>5, <1>6, LocationStays DEF IInv, BoardsStay
<1>9. PortInv'
  BY <1>5, PortsStay DEF IInv
<1>. QED BY <1>1, <1>2, <1>3, <1>7, <1>8, <1>9 DEF IInv

(* A call that does not begin meets no other that it had not met.           *)
LEMMA CrossStep ==
  ASSUME TypeOK, CrossInv, StoryGrows, NEW c \in Clients, OnlyCall(c),
         calls'[c] # NULL /\ calls[c].at = "read" /\ Crosses(c) => "crossed" \in story'.pairs[Pair(c)]
  PROVE  CrossInv'
<1>. SUFFICES ASSUME NEW d \in Clients, NEW e \in Clients,
                     calls'[d] # NULL, calls'[d].op = "injectPlugin", calls'[d].at # "read",
                     calls'[e] # NULL, calls'[e].op = "removePlugin", calls'[e].at # "read",
                     Pair(d)' = Pair(e)'
              PROVE  "crossed" \in story'.pairs[Pair(d)']
  BY DEF CrossInv
<1>1. /\ calls[d] # NULL /\ calls[d].op = "injectPlugin" /\ Pair(d)' = Pair(d)
      /\ calls[e] # NULL /\ calls[e].op = "removePlugin" /\ Pair(e)' = Pair(e)
      /\ d # e /\ d # c => calls[d].at # "read"
      /\ e # c => calls[e].at # "read"
  BY DEF OnlyCall, Pair, PluginOps
<1>2. Pair(d) \in Pairs
  BY <1>1, PairOf DEF PluginOps
<1>3. CASE calls[d].at # "read" /\ calls[e].at # "read"
  BY <1>1, <1>2, <1>3 DEF CrossInv, StoryGrows
<1>4. CASE calls[d].at = "read"
  <2>1. c = d /\ e # c
    BY <1>1, <1>4
  <2>2. Crosses(c)
    BY <1>1, <2>1 DEF Crosses, PluginOps
  <2>. QED BY <1>1, <1>4, <2>1, <2>2
<1>5. CASE calls[e].at = "read"
  <2>1. c = e /\ d # c
    BY <1>1, <1>5
  <2>2. Crosses(c)
    BY <1>1, <2>1 DEF Crosses, PluginOps
  <2>. QED BY <1>1, <1>5, <2>1, <2>2
<1>. QED BY <1>3, <1>4, <1>5

(* Rows of injections stay, with another status, or go.                     *)
RowsShrink ==
  /\ spent.serial \in Nat /\ spent'.serial \in Nat /\ spent.serial <= spent'.serial
  /\ \A i \in injections' : \E j \in injections :
       i.id = j.id /\ i.board = j.board /\ i.plugin = j.plugin

(* What a plugin call knows of the rows stays when none is added.           *)
LEMMA RowStays ==
  ASSUME TypeOK, StoryGrows, RowsShrink, NEW c \in Clients, calls[c] # NULL, calls[c].op \in PluginOps,
         HoldsRow(c), calls'[c] = calls[c]
  PROVE  HoldsRow(c)'
<1>1. Pair(c)' = Pair(c) /\ Pair(c) \in Pairs /\ calls[c].row \in Nat \cup {NULL}
  BY PairOf DEF Pair
<1>2. calls[c].row # NULL => calls[c].row < spent'.serial
  BY <1>1 DEF HoldsRow, RowsShrink
<1>3. \A i \in injections' : i.id = calls[c].row /\ calls[c].row # NULL => <<i.board, i.plugin>> = Pair(c)
  BY DEF RowsShrink, HoldsRow
<1>4. \A i \in RowsOf(calls[c].board, calls[c].plugin)' :
        \E j \in RowsOf(calls[c].board, calls[c].plugin) : i.id = j.id
  BY DEF RowsShrink, RowsOf
<1>. QED BY <1>1, <1>2, <1>3, <1>4 DEF HoldsRow, StoryGrows

(* What it knows of its board stays unless its plugin comes or goes.        *)
LEMMA AnswerStays ==
  ASSUME TypeOK, StoryGrows, NEW c \in Clients, calls[c] # NULL, calls[c].op \in PluginOps,
         HoldsAnswer(c), calls'[c] = calls[c],
         \/ IsThere(c)' = IsThere(c)
         \/ calls[c].op = "injectPlugin" /\ IsThere(c)'
         \/ calls[c].op = "injectPlugin" /\ story'.pairs[Pair(c)] \cap {"lost", "reset", "crossed"} # {}
         \/ calls[c].op = "removePlugin" /\ ~IsThere(c)'
         \/ "crossed" \in story'.pairs[Pair(c)]
  PROVE  HoldsAnswer(c)'
<1>1. Pair(c)' = Pair(c) /\ Pair(c) \in Pairs
  BY PairOf DEF Pair
<1>. QED BY <1>1 DEF HoldsAnswer, StoryGrows

(* A step ends no call but the one that it is of.                           *)
LEMMA UnderwayStays ==
  ASSUME NEW c \in Clients, OnlyCall(c), NEW q, NEW op, NEW at, Underway(q, op, at)
  PROVE  \/ Underway(q, op, at)'
         \/ /\ calls[c].op = op /\ calls[c].at \in at /\ calls[c].result = "SUCCESS" /\ Pair(c) = q
<1>1. PICK d \in Clients : /\ calls[d] # NULL /\ calls[d].op = op /\ calls[d].at \in at
                           /\ calls[d].result = "SUCCESS" /\ Pair(d) = q
  BY DEF Underway
<1>2. CASE d = c
  BY <1>1, <1>2
<1>3. CASE d # c
  <2>1. calls'[d] = calls[d]
    BY <1>3 DEF OnlyCall
  <2>. QED BY <1>1, <2>1 DEF Underway, Pair
<1>. QED BY <1>2, <1>3

(* A call on a plugin that another step of the same pair meets is crossed.  *)
LEMMA Met ==
  ASSUME TypeOK, InjectionInv, StoryGrows, NEW c \in Clients, NEW d \in Clients,
         calls[c] # NULL, calls[c].at # "read", calls[d] # NULL, calls[d].at # "read",
         \/ calls[c].op = "injectPlugin" /\ calls[d].op = "removePlugin"
         \/ calls[c].op = "removePlugin" /\ calls[d].op = "injectPlugin",
         Pair(c) = Pair(d)
  PROVE  "crossed" \in story'.pairs[Pair(c)]
<1>1. Pair(c) \in Pairs
  BY PairOf DEF PluginOps
<1>2. "crossed" \in story.pairs[Pair(c)]
  BY DEF InjectionInv, CrossInv
<1>. QED BY <1>1, <1>2 DEF StoryGrows

(* What the other calls hold stays when the memory of the boards does.      *)
LEMMA OthersHold ==
  ASSUME IInv, NEW c \in Clients, OnlyCall(c), RowsShrink, StoryGrows, installed' = installed,
         NEW d \in Clients, d # c, calls'[d] # NULL, calls'[d].op \in PluginOps
  PROVE  HoldsRow(d)' /\ HoldsAnswer(d)'
<1>1. calls'[d] = calls[d] /\ HoldsRow(d) /\ HoldsAnswer(d)
  BY DEF OnlyCall, IInv, InjectionInv, RowInv, AnswerInv
<1>2. IsThere(d)' = IsThere(d)
  BY <1>1 DEF IsThere
<1>. QED BY <1>1, <1>2, RowStays, AnswerStays DEF IInv

(* What a step notes of a pair.                                             *)
LEMMA Noted ==
  ASSUME TypeOK, NEW q \in Pairs, NEW marks \in SUBSET Marks, NEW s,
         s \in {story, [story EXCEPT !.pairs[q] = @ \cup marks]}, story' = s
  PROVE  /\ story' \in Stories /\ StoryGrows
         /\ s # story => marks \subseteq story'.pairs[q]
         /\ \A p \in Pairs \ {q} : story'.pairs[p] = story.pairs[p]
<1>1. story \in Stories /\ story.pairs \in [Pairs -> SUBSET Marks]
  BY DEF TypeOK, Stories
<1>. DEFINE new == [story.pairs EXCEPT ![q] = @ \cup marks]
<1>2. new \in [Pairs -> SUBSET Marks] /\ new[q] = story.pairs[q] \cup marks
      /\ \A p \in Pairs \ {q} : new[p] = story.pairs[p]
  BY <1>1
<1>. HIDE DEF new
<1>3. CASE s = story
  BY <1>1, <1>3 DEF StoryGrows
<1>4. CASE s = [story EXCEPT !.pairs = new]
  <2>1. s \in Stories /\ s.pairs = new /\ s.clash = story.clash /\ s.cut = story.cut /\ s.stray = story.stray
    BY <1>1, <1>2, <1>4 DEF Stories
  <2>. QED BY <1>1, <1>2, <2>1 DEF StoryGrows
<1>. QED BY <1>3, <1>4 DEF new

(* inject_plugin and remove_plugin go on after their reads.                 *)
LEMMA BeginStep ==
  ASSUME IInv, NEW c \in Clients, calls[c] # NULL, calls[c].op \in PluginOps, calls[c].at = "read",
         NEW row \in Nat \cup {NULL}, NEW m, m = [calls[c] EXCEPT !.at = "execute", !.row = row],
         calls' = [calls EXCEPT ![c] = m],
         row # NULL => /\ row < spent.serial
                       /\ \A i \in injections : i.id = row => <<i.board, i.plugin>> = Pair(c),
         calls[c].op = "removePlugin" =>
           row # NULL /\ \A i \in RowsOf(calls[c].board, calls[c].plugin) : i.id = row,
         story' = IF Crosses(c) THEN [story EXCEPT !.pairs[Pair(c)] = @ \cup {"crossed"}] ELSE story,
         UNCHANGED <<tables, device, mix, spent>>
  PROVE  IInv'
<1>. USE DEF InjectionInv
<1>1. calls[c] \in PluginCalls
  BY CallKinds DEF IInv, TypeOK
<1>2. /\ m \in PluginCalls /\ m.at = "execute" /\ m.row = row /\ m.op = calls[c].op
      /\ m.board = calls[c].board /\ m.plugin = calls[c].plugin
  BY <1>1 DEF PluginCalls, Labels
<1>3. m \in Calls /\ m # NULL
  BY <1>2, NullAssumption DEF Calls
<1>4. calls' \in [Clients -> Calls \cup {NULL}] /\ calls'[c] = m /\ OnlyCall(c)
  BY <1>2, <1>3 DEF IInv, TypeOK, OnlyCall
<1>5. UNCHANGED <<rows, located, injections, exposed, born, installed, allowed, free, mix, spent>>
  BY DEF tables, device
<1>6. Pair(c) \in Pairs /\ Pair(c)' = Pair(c)
  BY <1>2, <1>4, PairOf DEF IInv, Pair
<1>7. story' \in Stories /\ StoryGrows /\ (Crosses(c) => "crossed" \in story'.pairs[Pair(c)])
  <2>1. TypeOK /\ {"crossed"} \in SUBSET Marks
    BY DEF IInv, Marks
  <2>2. [story EXCEPT !.pairs[Pair(c)] = @ \cup {"crossed"}].pairs[Pair(c)] = story.pairs[Pair(c)] \cup {"crossed"}
    BY <1>6, <2>1 DEF TypeOK, Stories
  <2>. QED BY <1>6, <2>1, <2>2, Noted
<1>8. TypeOK /\ InjectionInv
  BY DEF IInv
<1>9. CrossInv'
  BY <1>4, <1>7, <1>8, CrossStep
<1>10. OneInjection'
  BY <1>5, <1>7, <1>8 DEF OneInjection, StoryGrows, TypeOK, Injections, Pairs
<1>11. RowsShrink
  BY <1>5, <1>8 DEF RowsShrink, TypeOK
<1>12. ASSUME NEW d \in Clients, d # c, calls'[d] # NULL, calls'[d].op \in PluginOps
       PROVE  HoldsRow(d)' /\ HoldsAnswer(d)'
  BY <1>4, <1>5, <1>7, <1>11, <1>12, OthersHold
<1>13. HoldsRow(c)'
  BY <1>2, <1>4, <1>5, <1>6 DEF HoldsRow, RowsOf
<1>14. HoldsAnswer(c)'
  BY <1>2, <1>4 DEF HoldsAnswer
<1>15. ASSUME NEW q \in Pairs PROVE PairAgrees(q)'
  <2>1. PairAgrees(q) /\ RowsOf(q[1], q[2])' = RowsOf(q[1], q[2]) /\ Exists("boards", q[1])' = Exists("boards", q[1])
    BY <1>5, <1>8 DEF AgreeInv, RowsOf, Exists
  <2>2. \A op : \A at \in SUBSET {"lookup", "record"} : Underway(q, op, at) => Underway(q, op, at)'
    BY <1>4, UnderwayStays
  <2>3. /\ Underway(q, "injectPlugin", {"lookup", "record"}) => Underway(q, "injectPlugin", {"lookup", "record"})'
        /\ Underway(q, "removePlugin", {"record"}) => Underway(q, "removePlugin", {"record"})'
    BY <2>2
  <2>. QED BY <1>5, <1>7, <2>1, <2>3 DEF PairAgrees, StoryGrows
<1>16. InjectionInv'
  BY <1>9, <1>10, <1>12, <1>13, <1>14, <1>15 DEF RowInv, AnswerInv, AgreeInv
<1>17. PortKeeps(c)
  BY <1>2, <1>4 DEF PortKeeps, Taking, PluginOps
<1>18. calls[c].op \in DeviceOps \ {"enableService"}
  BY DEF DeviceOps, PluginOps
<1>19. /\ injections' \subseteq Injections /\ installed' \in [Boards -> SUBSET Plugins]
       /\ spent' \in [calls : Nat, toggles : Nat, crashes : Nat, serial : Nat]
       /\ \A b \in Boards : b \notin born.boards => installed'[b] = {}
       /\ \A i \in injections' : i.id < spent'.serial
       /\ \A i, j \in injections' : i.id = j.id => i = j
  BY <1>5 DEF IInv, TypeOK, TableInv
<1>. HIDE DEF InjectionInv
<1>. QED BY <1>4, <1>5, <1>7, <1>16, <1>17, <1>18, <1>19, PluginStep

(* A handler that finds nothing to do after its reads.                      *)
LEMMA GiveUpStep ==
  ASSUME IInv, NEW c \in Clients, calls[c] # NULL, calls[c].op \in PluginOps, calls[c].at = "read", Return(c),
         story' = IF Crosses(c) THEN [story EXCEPT !.pairs[Pair(c)] = @ \cup {"crossed"}] ELSE story,
         UNCHANGED <<tables, device, mix, spent>>
  PROVE  IInv'
<1>1. /\ calls' \in [Clients -> Calls \cup {NULL}] /\ calls'[c] = NULL
      /\ \A d \in Clients \ {c} : calls'[d] = calls[d]
  BY ReturnStep DEF IInv
<1>2. TypeOK /\ Pair(c) \in Pairs /\ {"crossed"} \in SUBSET Marks
  BY PairOf DEF IInv, Marks
<1>3. story' \in Stories /\ StoryGrows
  BY <1>2, Noted
<1>4. Keeps(c)
  BY <1>1, EndKeeps DEF Answered, Busy, Taking, PluginOps
<1>5. \A d \in Clients : Keeps(d)
  BY <1>1, <1>3, <1>4, SameKeeps DEF IInv
<1>6. CallInv'
  BY <1>1, CallsStay DEF IInv, tables
<1>7. spent' \in [calls : Nat, toggles : Nat, crashes : Nat, serial : Nat]
  BY DEF IInv, TypeOK
<1>. QED BY <1>1, <1>3, <1>5, <1>6, <1>7, QuietStep

(* inject_plugin has read the plugin.                                       *)
LEMMA InjectPluginInv ==
  ASSUME IInv, NEW c \in Clients, InjectPlugin(c)
  PROVE  IInv'
<1>1. /\ calls[c] # NULL /\ calls[c].op = "injectPlugin" /\ calls[c].op \in PluginOps /\ calls[c].at = "read"
      /\ story' = IF Crosses(c) THEN [story EXCEPT !.pairs[Pair(c)] = @ \cup {"crossed"}] ELSE story
      /\ UNCHANGED <<tables, device, mix, spent>>
  BY DEF InjectPlugin, ReadPlugin, Busy, PluginOps
<1>2. CASE Return(c)
  BY <1>1, <1>2, GiveUpStep
<1>3. CASE Goto(c, "execute")
  <2>1. calls[c] \in PluginCalls /\ HoldsRow(c)
    BY <1>1, CallKinds DEF IInv, TypeOK, InjectionInv, RowInv
  <2>. DEFINE row == calls[c].row
              m == [calls[c] EXCEPT !.at = "execute", !.row = row]
  <2>2. row \in Nat \cup {NULL} /\ m = [calls[c] EXCEPT !.at = "execute"]
    BY <2>1 DEF PluginCalls
  <2>3. calls' = [calls EXCEPT ![c] = m]
    BY <1>3, <2>2 DEF Goto
  <2>4. row # NULL => /\ row < spent.serial
                      /\ \A i \in injections : i.id = row => <<i.board, i.plugin>> = Pair(c)
    BY <2>1 DEF HoldsRow
  <2>5. m = [calls[c] EXCEPT !.at = "execute", !.row = row]
    OBVIOUS
  <2>. HIDE DEF row, m
  <2>. QED BY <1>1, <2>2, <2>3, <2>4, <2>5, BeginStep
<1>. QED BY <1>2, <1>3 DEF InjectPlugin, ReadPlugin

(* The row that one() returns is the only one of the plugin and the board.  *)
LEMMA OnlyRow ==
  ASSUME TypeOK, NEW b, NEW p, InjectionByUuids(b, p) # NULL
  PROVE  /\ InjectionByUuids(b, p) \in injections
         /\ RowsOf(b, p) = {InjectionByUuids(b, p)}
<1>1. PICK i \in RowsOf(b, p) : RowsOf(b, p) = {i}
  BY DEF InjectionByUuids
<1>2. InjectionByUuids(b, p) = i
  BY <1>1 DEF InjectionByUuids
<1>. QED BY <1>1, <1>2 DEF RowsOf

(* remove_plugin has read the plugin and the injection.                     *)
LEMMA RemovePluginInv ==
  ASSUME IInv, NEW c \in Clients, RemovePlugin(c)
  PROVE  IInv'
<1>1. /\ calls[c] # NULL /\ calls[c].op = "removePlugin" /\ calls[c].op \in PluginOps /\ calls[c].at = "read"
      /\ story' = IF Crosses(c) THEN [story EXCEPT !.pairs[Pair(c)] = @ \cup {"crossed"}] ELSE story
      /\ UNCHANGED <<tables, device, mix, spent>>
  BY DEF RemovePlugin, Busy, PluginOps
<1>2. CASE Return(c)
  BY <1>1, <1>2, GiveUpStep
<1>. DEFINE i == InjectionByUuids(calls[c].board, calls[c].plugin)
            row == i.id
            m == [calls[c] EXCEPT !.at = "execute", !.row = row]
<1>3. CASE i # NULL /\ calls' = [calls EXCEPT ![c].at = "execute", ![c].row = row]
  <2>1. i \in injections /\ RowsOf(calls[c].board, calls[c].plugin) = {i}
    BY <1>3, OnlyRow DEF IInv
  <2>2. i \in RowsOf(calls[c].board, calls[c].plugin)
    BY <2>1
  <2>3. <<i.board, i.plugin>> = Pair(c)
    BY <2>2 DEF RowsOf, Pair
  <2>4. calls' = [calls EXCEPT ![c] = m]
    BY <1>3 DEF IInv, TypeOK
  <2>5. m = [calls[c] EXCEPT !.at = "execute", !.row = row]
    OBVIOUS
  <2>. HIDE DEF i, m
  <2>6. row \in Nat \cup {NULL} /\ row # NULL /\ row < spent.serial
    BY <2>1, NullAssumption DEF IInv, TypeOK, TableInv, Injections
  <2>7. \A j \in injections : j.id = row => <<j.board, j.plugin>> = Pair(c)
    BY <2>1, <2>3 DEF IInv, TableInv
  <2>8. \A j \in RowsOf(calls[c].board, calls[c].plugin) : j.id = row
    BY <2>1
  <2>. HIDE DEF row
  <2>. QED BY <1>1, <2>4, <2>5, <2>6, <2>7, <2>8, BeginStep
<1>. QED BY <1>2, <1>3 DEF RemovePlugin
-----------------------------------------------------------------------------
(* What boards do                                                            *)
LEMMA MemoryIs ==
  ASSUME IInv, NEW c \in Clients, calls[c] # NULL, calls[c].op \in DeviceOps,
         installed' = [installed EXCEPT ![calls[c].board] = Memory(c)]
  PROVE  /\ calls[c].board \in Boards
         /\ installed' \in [Boards -> SUBSET Plugins]
         /\ installed'[calls[c].board] = Memory(c)
         /\ \A b \in Boards \ {calls[c].board} : installed'[b] = installed[b]
         /\ \A b \in Boards : b \notin born.boards => installed'[b] = {}
<1>1. calls[c].board \in Boards /\ calls[c].board \in born.boards
      /\ (calls[c].op \in PluginOps => calls[c].plugin \in Plugins)
  BY PairOf DEF IInv, CallInv, TypeOK, Tables, Uuids
<1>2. Memory(c) \in SUBSET Plugins
  BY <1>1 DEF Memory, IInv, TypeOK, PluginOps
<1>. QED BY <1>1, <1>2 DEF IInv, TypeOK, TableInv

(* What the board has told other calls still holds, unless it is noted.     *)
LEMMA AnswersStay ==
  ASSUME IInv, NEW c \in Clients, OnlyCall(c), calls[c].at # "read",
         calls[c].op \in PluginOps \cup {"destroyBoard"}, StoryGrows,
         installed' = [installed EXCEPT ![calls[c].board] = Memory(c)],
         calls[c].op = "destroyBoard" =>
           \A q \in Pairs : q[1] = calls[c].board => "reset" \in story'.pairs[q],
         NEW d \in Clients, d # c, calls'[d] # NULL, calls'[d].op \in PluginOps
  PROVE  HoldsAnswer(d)'
<1>1. calls'[d] = calls[d] /\ HoldsAnswer(d) /\ TypeOK /\ InjectionInv /\ calls[c] # NULL
  BY DEF OnlyCall, IInv, InjectionInv, AnswerInv
<1>2. /\ calls[d].board \in Boards /\ calls[d].plugin \in Plugins
      /\ Pair(d) \in Pairs /\ Pair(d) = <<calls[d].board, calls[d].plugin>>
  BY <1>1, PairOf
<1>3. /\ calls[c].board \in Boards /\ installed'[calls[c].board] = Memory(c)
      /\ \A b \in Boards \ {calls[c].board} : installed'[b] = installed[b]
  BY <1>1, MemoryIs DEF DeviceOps
<1>4. IsThere(d)' <=> calls[d].plugin \in installed'[calls[d].board]
  BY <1>1 DEF IsThere
<1>5. CASE calls[d].board # calls[c].board
  BY <1>1, <1>2, <1>3, <1>4, <1>5, AnswerStays DEF IsThere
<1>6. CASE calls[d].board = calls[c].board /\ calls[c].op = "destroyBoard"
  <2>1. "reset" \in story'.pairs[Pair(d)]
    BY <1>2, <1>6
  <2>2. ~IsThere(d)'
    BY <1>3, <1>4, <1>6 DEF Memory, PluginOps
  <2>. QED BY <1>1, <2>1, <2>2, AnswerStays DEF PluginOps
<1>7. CASE calls[d].board = calls[c].board /\ calls[c].op \in PluginOps
  <2>1. CASE calls[d].plugin # calls[c].plugin
    <3>1. IsThere(d)' <=> IsThere(d)
      BY <1>3, <1>4, <1>7, <2>1 DEF IsThere, Memory, PluginOps
    <3>. QED BY <1>1, <3>1, AnswerStays DEF IsThere
  <2>2. CASE calls[d].plugin = calls[c].plugin /\ calls[c].op = calls[d].op
    <3>1. IF calls[c].op = "injectPlugin" THEN IsThere(d)' ELSE ~IsThere(d)'
      BY <1>3, <1>4, <1>7, <2>2 DEF Memory, PluginOps
    <3>. QED BY <1>1, <1>7, <2>2, <3>1, AnswerStays DEF PluginOps
  <2>3. CASE calls[d].plugin = calls[c].plugin /\ calls[c].op # calls[d].op /\ calls[d].at # "read"
    <3>1. Pair(c) = Pair(d)
      BY <1>7, <2>3 DEF Pair
    <3>2. "crossed" \in story'.pairs[Pair(d)]
      BY <1>1, <1>7, <2>3, <3>1, Met DEF PluginOps
    <3>. QED BY <1>1, <3>2, AnswerStays
  <2>4. CASE calls[d].at = "read"
    BY <1>1, <2>4 DEF HoldsAnswer
  <2>. QED BY <2>1, <2>2, <2>3, <2>4
<1>. QED BY <1>5, <1>6, <1>7

(* The board carries out a call that changes its memory.                    *)
LEMMA BoardStep ==
  ASSUME IInv, NEW c \in Clients, OnlyCall(c), calls[c].at \notin {"read", "lookup", "record"},
         calls[c].op \in PluginOps \cup {"destroyBoard"}, calls' \in [Clients -> Calls \cup {NULL}],
         installed' = [installed EXCEPT ![calls[c].board] = Memory(c)],
         UNCHANGED <<tables, allowed, free, mix, spent>>, story' \in Stories, StoryGrows, PortKeeps(c),
         calls[c].op = "destroyBoard" =>
           \A q \in Pairs : q[1] = calls[c].board => "reset" \in story'.pairs[q],
         calls'[c] # NULL /\ calls'[c].op \in PluginOps => HoldsRow(c)' /\ HoldsAnswer(c)',
         \A q \in Pairs : q = Pair(c) /\ calls[c].op = "injectPlugin" =>
           "lost" \in story'.pairs[q] \/ Underway(q, "injectPlugin", {"lookup", "record"})',
         \A q \in Pairs : q = Pair(c) /\ calls[c].op = "removePlugin" =>
           "lost" \in story'.pairs[q] \/ Underway(q, "removePlugin", {"record"})'
  PROVE  IInv'
<1>1. UNCHANGED <<rows, located, injections, exposed, born, allowed, free, mix, spent>>
  BY DEF tables
<1>2. TypeOK /\ InjectionInv /\ calls[c] # NULL
  BY DEF IInv, OnlyCall
<1>3. /\ calls[c].board \in Boards /\ installed' \in [Boards -> SUBSET Plugins]
      /\ installed'[calls[c].board] = Memory(c)
      /\ \A b \in Boards \ {calls[c].board} : installed'[b] = installed[b]
      /\ \A b \in Boards : b \notin born.boards => installed'[b] = {}
  BY <1>2, MemoryIs DEF DeviceOps
<1>4. CrossInv'
  BY <1>2, CrossStep DEF InjectionInv
<1>5. OneInjection'
  BY <1>1, <1>2 DEF OneInjection, StoryGrows, TypeOK, Injections, Pairs, InjectionInv
<1>6. RowsShrink
  BY <1>1, <1>2 DEF RowsShrink, TypeOK
<1>7. ASSUME NEW d \in Clients, d # c, calls'[d] # NULL, calls'[d].op \in PluginOps
      PROVE  HoldsRow(d)' /\ HoldsAnswer(d)'
  <2>1. calls'[d] = calls[d] /\ HoldsRow(d)
    BY <1>2, <1>7 DEF OnlyCall, InjectionInv, RowInv
  <2>. QED BY <1>2, <1>6, <1>7, <2>1, RowStays, AnswersStay
<1>8. ASSUME NEW q \in Pairs PROVE PairAgrees(q)'
  <2>1. /\ PairAgrees(q) /\ RowsOf(q[1], q[2])' = RowsOf(q[1], q[2])
        /\ Exists("boards", q[1])' = Exists("boards", q[1])
        /\ q[1] \in Boards /\ q[2] \in Plugins /\ q = <<q[1], q[2]>>
    BY <1>1, <1>2 DEF AgreeInv, RowsOf, Exists, InjectionInv, Pairs
  <2>2. \A op : \A at \in SUBSET {"lookup", "record"} : Underway(q, op, at) => Underway(q, op, at)'
    BY UnderwayStays
  <2>3. /\ Underway(q, "injectPlugin", {"lookup", "record"}) => Underway(q, "injectPlugin", {"lookup", "record"})'
        /\ Underway(q, "removePlugin", {"record"}) => Underway(q, "removePlugin", {"record"})'
    BY <2>2
  <2>4. CASE q[2] \in installed'[q[1]] <=> q[2] \in installed[q[1]]
    BY <2>1, <2>3, <2>4 DEF PairAgrees, StoryGrows
  <2>5. CASE calls[c].op = "destroyBoard" /\ q[1] = calls[c].board
    <3>1. q[2] \notin installed'[q[1]] /\ "reset" \in story'.pairs[q]
      BY <1>3, <2>5 DEF Memory, PluginOps
    <3>. QED BY <3>1 DEF PairAgrees
  <2>6. CASE calls[c].op \in PluginOps /\ q = Pair(c)
    <3>1. q[1] = calls[c].board /\ q[2] = calls[c].plugin
      BY <2>6 DEF Pair
    <3>2. CASE calls[c].op = "injectPlugin"
      <4>1. q[2] \in installed'[q[1]]
        BY <1>3, <3>1, <3>2 DEF Memory
      <4>. QED BY <2>6, <3>2, <4>1 DEF PairAgrees
    <3>3. CASE calls[c].op = "removePlugin"
      <4>1. q[2] \notin installed'[q[1]]
        BY <1>3, <3>1, <3>3 DEF Memory
      <4>. QED BY <2>6, <3>3, <4>1 DEF PairAgrees
    <3>. QED BY <2>6, <3>2, <3>3 DEF PluginOps
  <2>7. CASE q[1] # calls[c].board
    BY <1>3, <2>1, <2>4, <2>7
  <2>8. CASE calls[c].op \in PluginOps /\ q[1] = calls[c].board /\ q # Pair(c)
    <3>1. q[2] # calls[c].plugin
      BY <2>1, <2>8 DEF Pair
    <3>2. q[2] \in installed'[q[1]] <=> q[2] \in installed[q[1]]
      BY <1>3, <2>8, <3>1 DEF Memory, PluginOps
    <3>. QED BY <2>4, <3>2
  <2>. QED BY <2>5, <2>6, <2>7, <2>8
<1>9. InjectionInv'
  BY <1>4, <1>5, <1>7, <1>8 DEF RowInv, AnswerInv, AgreeInv, InjectionInv
<1>10. calls[c].op \in DeviceOps \ {"enableService"}
  BY DEF DeviceOps, PluginOps
<1>11. /\ injections' \subseteq Injections
       /\ spent' \in [calls : Nat, toggles : Nat, crashes : Nat, serial : Nat]
       /\ \A i \in injections' : i.id < spent'.serial
       /\ \A i, j \in injections' : i.id = j.id => i = j
  BY <1>1 DEF IInv, TypeOK, TableInv
<1>. QED BY <1>1, <1>3, <1>9, <1>10, <1>11, PluginStep

(* What is noted of a call whose answer is lost, and of a reset.            *)
LEMMA ToldIs ==
  ASSUME TypeOK, NEW c \in Clients, calls[c] # NULL, calls[c].op \in DeviceOps,
         NEW what \in Marks, story' = Told(c, what)
  PROVE  /\ story' \in Stories /\ StoryGrows
         /\ calls[c].op \in PluginOps => what \in story'.pairs[Pair(c)]
         /\ calls[c].op = "destroyBoard" =>
              \A q \in Pairs : q[1] = calls[c].board => "reset" \in story'.pairs[q]
<1>1. CASE calls[c].op \in PluginOps
  <2>1. story' = [story EXCEPT !.pairs[Pair(c)] = @ \cup {what}] /\ Pair(c) \in Pairs /\ {what} \in SUBSET Marks
    BY <1>1, PairOf DEF Told
  <2>2. [story EXCEPT !.pairs[Pair(c)] = @ \cup {what}].pairs[Pair(c)] = story.pairs[Pair(c)] \cup {what}
    BY <2>1 DEF TypeOK, Stories
  <2>. QED BY <1>1, <2>1, <2>2, Noted DEF PluginOps
<1>2. CASE calls[c].op = "destroyBoard"
  <2>. DEFINE pairs == [q \in Pairs |-> story.pairs[q] \cup
                          IF q[1] = calls[c].board THEN {"reset"} ELSE {}]
  <2>1. story' = [story EXCEPT !.pairs = pairs]
    BY <1>2 DEF Told, PluginOps
  <2>2. /\ pairs \in [Pairs -> SUBSET Marks] /\ \A q \in Pairs : story.pairs[q] \subseteq pairs[q]
        /\ \A q \in Pairs : q[1] = calls[c].board => "reset" \in pairs[q]
    BY DEF TypeOK, Stories, Marks
  <2>. HIDE DEF pairs
  <2>3. story \in Stories
    BY DEF TypeOK
  <2>4. /\ story'.pairs = pairs /\ story'.clash = story.clash /\ story'.cut = story.cut
        /\ story'.stray = story.stray /\ story' \in Stories
    BY <2>1, <2>2, <2>3 DEF Stories
  <2>. QED BY <1>2, <2>2, <2>4 DEF StoryGrows, PluginOps
<1>3. CASE calls[c].op \notin PluginOps \cup {"destroyBoard"}
  BY <1>3 DEF Told, TypeOK, StoryGrows
<1>. QED BY <1>1, <1>2, <1>3

(* A plugin call takes the result of the board and goes on.                 *)
LEMMA ResultStep ==
  ASSUME IInv, NEW c \in Clients, calls[c] # NULL, calls[c].op \in PluginOps,
         NEW at \in {"lookup", "record"}, NEW result \in Results \cup {NULL},
         calls' = [calls EXCEPT ![c].at = at, ![c].result = result]
  PROVE  /\ calls' \in [Clients -> Calls \cup {NULL}] /\ OnlyCall(c) /\ PortKeeps(c)
         /\ calls'[c] # NULL /\ calls'[c].op = calls[c].op
         /\ calls'[c].at = at /\ calls'[c].result = result /\ calls'[c].row = calls[c].row
         /\ calls'[c].board = calls[c].board /\ calls'[c].plugin = calls[c].plugin
<1>. DEFINE m == [calls[c] EXCEPT !.at = at, !.result = result]
<1>1. calls[c] \in PluginCalls /\ calls \in [Clients -> Calls \cup {NULL}]
  BY CallKinds DEF IInv, TypeOK
<1>2. /\ m \in PluginCalls /\ m.at = at /\ m.row = calls[c].row /\ m.op = calls[c].op
      /\ m.board = calls[c].board /\ m.plugin = calls[c].plugin /\ m.result = result
  BY <1>1 DEF PluginCalls, Labels
<1>3. m \in Calls /\ m # NULL
  BY <1>2, NullAssumption DEF Calls
<1>4. calls' = [calls EXCEPT ![c] = m]
  BY <1>1
<1>. HIDE DEF m
<1>5. calls' \in [Clients -> Calls \cup {NULL}] /\ calls'[c] = m /\ OnlyCall(c)
  BY <1>1, <1>2, <1>3, <1>4, ZenonT(60) DEF OnlyCall
<1>6. PortKeeps(c)
  BY <1>2, <1>5 DEF PortKeeps, Taking, PluginOps
<1>. QED BY <1>2, <1>3, <1>5, <1>6

(* The board carries the call out.                                          *)
LEMMA BoardDoesInv ==
  ASSUME IInv, NEW c \in Clients, BoardDoes(c)
  PROVE  IInv'
<1>1. /\ calls[c] # NULL /\ calls[c].at = "invoke" /\ calls[c].op \in DeviceOps
      /\ installed' = [installed EXCEPT ![calls[c].board] = Memory(c)]
      /\ UNCHANGED <<tables, allowed, free, mix, spent>>
  BY DEF BoardDoes, IInv, CallInv
<1>2. CASE calls[c].op \in PluginOps
  <2>. DEFINE at == IF calls[c].op = "injectPlugin" THEN "lookup" ELSE "record"
  <2>1. calls' = [calls EXCEPT ![c].at = at, ![c].result = "SUCCESS"] /\ UNCHANGED story
    BY <1>2 DEF BoardDoes, PluginOps
  <2>2. at \in {"lookup", "record"} /\ "SUCCESS" \in Results \cup {NULL}
        /\ (at = "lookup" <=> calls[c].op = "injectPlugin")
    BY DEF Results
  <2>. HIDE DEF at
  <2>3. /\ calls' \in [Clients -> Calls \cup {NULL}] /\ OnlyCall(c) /\ PortKeeps(c)
        /\ calls'[c] # NULL /\ calls'[c].op = calls[c].op
        /\ calls'[c].at = at /\ calls'[c].result = "SUCCESS" /\ calls'[c].row = calls[c].row
        /\ calls'[c].board = calls[c].board /\ calls'[c].plugin = calls[c].plugin
    BY <1>1, <1>2, <2>1, <2>2, ResultStep, ZenonT(60)
  <2>4. Pair(c)' = Pair(c) /\ Pair(c) = <<calls[c].board, calls[c].plugin>> /\ calls[c].plugin \in Plugins
    BY <1>1, <1>2, <2>3, PairOf DEF Pair, IInv
  <2>5. story' \in Stories /\ StoryGrows
    BY <2>1 DEF StoryGrows, IInv, TypeOK
  <2>6. installed'[calls[c].board] = Memory(c)
    BY <1>1, MemoryIs
  <2>7. HoldsRow(c)'
    <3>1. HoldsRow(c) /\ injections' = injections /\ spent' = spent
      BY <1>1, <1>2 DEF IInv, InjectionInv, RowInv, tables
    <3>. QED BY <1>1, <1>2, <2>1, <2>2, <2>3, <2>4, <3>1 DEF HoldsRow, RowsOf, PluginOps
  <2>8. HoldsAnswer(c)'
    BY <1>2, <2>2, <2>3, <2>4, <2>6 DEF HoldsAnswer, IsThere, Memory, PluginOps
  <2>9. \A q \in Pairs : q = Pair(c) /\ calls[c].op = "injectPlugin" =>
          Underway(q, "injectPlugin", {"lookup", "record"})'
    BY <2>2, <2>3, <2>4 DEF Underway
  <2>10. \A q \in Pairs : q = Pair(c) /\ calls[c].op = "removePlugin" =>
           Underway(q, "removePlugin", {"record"})'
    BY <2>2, <2>3, <2>4 DEF Underway
  <2>. QED BY <1>1, <1>2, <2>3, <2>5, <2>7, <2>8, <2>9, <2>10, BoardStep DEF PluginOps
<1>3. CASE calls[c].op = "destroyBoard"
  <2>1. Goto(c, "list") /\ story' = Told(c, "reset") /\ "reset" \in Marks /\ "list" \in Labels
    BY <1>3 DEF BoardDoes, PluginOps, Marks, Labels
  <2>2. /\ story' \in Stories /\ StoryGrows
        /\ \A q \in Pairs : q[1] = calls[c].board => "reset" \in story'.pairs[q]
    BY <1>1, <1>3, <2>1, ToldIs DEF IInv
  <2>3. /\ calls' \in [Clients -> Calls \cup {NULL}] /\ calls'[c] # NULL
        /\ Moved(calls[c], calls'[c]) /\ \A d \in Clients \ {c} : calls'[d] = calls[d]
    BY <1>1, <2>1, GotoStep DEF IInv
  <2>4. OnlyCall(c) /\ calls'[c].op = "destroyBoard"
    BY <1>1, <1>3, <2>3 DEF OnlyCall, Moved, DeviceOps, PluginOps
  <2>5. PortKeeps(c)
    BY <1>1, <1>3, <2>3 DEF PortKeeps, Moved, Taking
  <2>. QED BY <1>1, <1>3, <2>2, <2>3, <2>4, <2>5, BoardStep DEF PluginOps
<1>4. CASE calls[c].op \in {"actionPlugin", "enableService"}
  <2>1. UNCHANGED story
    BY <1>4 DEF BoardDoes, PluginOps
  <2>2. Memory(c) = installed[calls[c].board]
    BY <1>4 DEF Memory
  <2>3. UNCHANGED <<tables, device, mix, spent, story>>
    BY <1>1, <2>1, <2>2 DEF device, IInv, TypeOK
  <2>4. story' \in Stories /\ StoryGrows
    BY <2>1 DEF StoryGrows, IInv, TypeOK
  <2>5. CASE calls[c].op = "actionPlugin"
    <3>1. Return(c)
      BY <2>5 DEF BoardDoes, PluginOps
    <3>. QED BY <1>1, <2>3, <2>5, <3>1, EndInv DEF PluginOps
  <2>6. CASE calls[c].op = "enableService"
    <3>1. Goto(c, "record") /\ "record" \in Labels
      BY <2>6 DEF BoardDoes, PluginOps, Labels
    <3>. QED BY <1>1, <2>3, <2>4, <2>6, <3>1, MoveInv DEF PluginOps
  <2>. QED BY <1>4, <2>5, <2>6
<1>. QED BY <1>1, <1>2, <1>3, <1>4 DEF DeviceOps

(* The board carries out a call nobody waits for any more.                  *)
LEMMA OrphanRunsInv ==
  ASSUME IInv, NEW c \in Clients, OrphanRuns(c)
  PROVE  IInv'
<1>1. /\ calls[c] # NULL /\ calls[c].at = "orphan" /\ calls[c].op \in DeviceOps
      /\ installed' = [installed EXCEPT ![calls[c].board] = Memory(c)]
      /\ UNCHANGED <<tables, allowed, free, mix, spent>>
      /\ story' = Told(c, "lost") /\ Return(c) /\ "lost" \in Marks
  BY DEF OrphanRuns, IInv, CallInv, Marks
<1>2. /\ calls' \in [Clients -> Calls \cup {NULL}] /\ calls'[c] = NULL
      /\ \A d \in Clients \ {c} : calls'[d] = calls[d]
  BY <1>1, ReturnStep DEF IInv
<1>3. CASE calls[c].op \in PluginOps \cup {"destroyBoard"}
  <2>1. /\ story' \in Stories /\ StoryGrows
        /\ calls[c].op \in PluginOps => "lost" \in story'.pairs[Pair(c)]
        /\ calls[c].op = "destroyBoard" =>
             \A q \in Pairs : q[1] = calls[c].board => "reset" \in story'.pairs[q]
    BY <1>1, ToldIs DEF IInv
  <2>2. OnlyCall(c)
    BY <1>1, <1>2 DEF OnlyCall
  <2>3. PortKeeps(c)
    BY <1>2, <1>3 DEF PortKeeps, Taking, PluginOps
  <2>. QED BY <1>1, <1>2, <1>3, <2>1, <2>2, <2>3, BoardStep DEF PluginOps
<1>4. CASE calls[c].op \in {"actionPlugin", "enableService"}
  <2>1. UNCHANGED story /\ Memory(c) = installed[calls[c].board]
    BY <1>1, <1>4 DEF Told, Memory, PluginOps
  <2>2. UNCHANGED <<tables, device, mix, spent, story>>
    BY <1>1, <2>1 DEF device, IInv, TypeOK
  <2>. QED BY <1>1, <1>4, <2>2, EndInv DEF PluginOps
<1>. QED BY <1>1, <1>3, <1>4 DEF DeviceOps

(* The board answers with an error.                                         *)
LEMMA BoardRefusesInv ==
  ASSUME IInv, NEW c \in Clients, BoardRefuses(c)
  PROVE  IInv'
<1>1. /\ calls[c] # NULL /\ calls[c].at = "invoke" /\ calls[c].op \in DeviceOps
      /\ UNCHANGED <<tables, device, mix, spent>>
  BY DEF BoardRefuses, IInv, CallInv
<1>2. CASE calls[c].op = "injectPlugin"
  <2>1. calls' = [calls EXCEPT ![c].at = "lookup", ![c].result = "ERROR"] /\ story' = Told(c, "failed")
    BY <1>2 DEF BoardRefuses
  <2>2. "ERROR" \in Results \cup {NULL} /\ "failed" \in Marks /\ calls[c].op \in PluginOps
    BY <1>2 DEF Results, Marks, PluginOps
  <2>3. /\ calls' \in [Clients -> Calls \cup {NULL}] /\ OnlyCall(c) /\ PortKeeps(c)
        /\ calls'[c] # NULL /\ calls'[c].op = calls[c].op
        /\ calls'[c].at = "lookup" /\ calls'[c].result = "ERROR" /\ calls'[c].row = calls[c].row
        /\ calls'[c].board = calls[c].board /\ calls'[c].plugin = calls[c].plugin
    BY <1>1, <2>1, <2>2, ResultStep
  <2>4. story' \in Stories /\ StoryGrows /\ "failed" \in story'.pairs[Pair(c)]
    BY <1>1, <2>1, <2>2, ToldIs DEF IInv
  <2>5. Pair(c)' = Pair(c)
    BY <2>3 DEF Pair
  <2>6. UNCHANGED <<rows, located, injections, exposed, born, installed, allowed, free, mix, spent>>
    BY <1>1 DEF tables, device
  <2>7. TypeOK /\ InjectionInv
    BY DEF IInv
  <2>8. CrossInv'
    BY <1>1, <2>3, <2>4, <2>7, CrossStep DEF InjectionInv
  <2>9. OneInjection'
    BY <2>4, <2>6, <2>7 DEF OneInjection, StoryGrows, TypeOK, Injections, Pairs, InjectionInv
  <2>10. RowsShrink
    BY <2>6, <2>7 DEF RowsShrink, TypeOK
  <2>11. ASSUME NEW d \in Clients, d # c, calls'[d] # NULL, calls'[d].op \in PluginOps
         PROVE  HoldsRow(d)' /\ HoldsAnswer(d)'
    BY <2>3, <2>4, <2>6, <2>10, <2>11, OthersHold
  <2>12. HoldsRow(c)'
    <3>1. HoldsRow(c)
      BY <1>1, <2>2, <2>7 DEF InjectionInv, RowInv
    <3>. QED BY <1>2, <2>3, <2>5, <2>6, <3>1 DEF HoldsRow
  <2>13. HoldsAnswer(c)'
    BY <1>2, <2>3, <2>4, <2>5 DEF HoldsAnswer
  <2>14. ASSUME NEW q \in Pairs PROVE PairAgrees(q)'
    <3>1. PairAgrees(q) /\ RowsOf(q[1], q[2])' = RowsOf(q[1], q[2]) /\ Exists("boards", q[1])' = Exists("boards", q[1])
      BY <2>6, <2>7 DEF AgreeInv, RowsOf, Exists, InjectionInv
    <3>2. \A op : \A at \in SUBSET {"lookup", "record"} : Underway(q, op, at) => Underway(q, op, at)'
      BY <1>1, <2>3, UnderwayStays
    <3>3. /\ Underway(q, "injectPlugin", {"lookup", "record"}) => Underway(q, "injectPlugin", {"lookup", "record"})'
          /\ Underway(q, "removePlugin", {"record"}) => Underway(q, "removePlugin", {"record"})'
      BY <3>2
    <3>. QED BY <2>4, <2>6, <3>1, <3>3 DEF PairAgrees, StoryGrows
  <2>15. InjectionInv'
    BY <2>8, <2>9, <2>11, <2>12, <2>13, <2>14 DEF RowInv, AnswerInv, AgreeInv, InjectionInv
  <2>16. calls[c].op \in DeviceOps \ {"enableService"}
    BY <1>2 DEF DeviceOps, PluginOps
  <2>17. /\ injections' \subseteq Injections /\ installed' \in [Boards -> SUBSET Plugins]
         /\ spent' \in [calls : Nat, toggles : Nat, crashes : Nat, serial : Nat]
         /\ \A b \in Boards : b \notin born.boards => installed'[b] = {}
         /\ \A i \in injections' : i.id < spent'.serial
         /\ \A i, j \in injections' : i.id = j.id => i = j
    BY <2>6 DEF IInv, TypeOK, TableInv
  <2>. QED BY <2>3, <2>4, <2>6, <2>15, <2>16, <2>17, PluginStep
<1>3. CASE calls[c].op = "destroyBoard"
  <2>1. Goto(c, "list") /\ UNCHANGED story
    BY <1>3 DEF BoardRefuses
  <2>. QED BY <1>1, <1>3, <2>1, MoveInv DEF PluginOps, Labels, StoryGrows, IInv, TypeOK
<1>4. CASE calls[c].op \notin {"injectPlugin", "destroyBoard"}
  <2>1. Raise(c)
    BY <1>4 DEF BoardRefuses
  <2>. QED BY <1>1, <2>1, RaiseInv
<1>. QED BY <1>2, <1>3, <1>4

(* The call has read the row, or has found none or several.                 *)
LEMMA LookupInjectionInv ==
  ASSUME IInv, NEW c \in Clients, LookupInjection(c)
  PROVE  IInv'
<1>. DEFINE i == InjectionByUuids(calls[c].board, calls[c].plugin)
            row == IF i = NULL THEN NULL ELSE i.id
            m == [calls[c] EXCEPT !.at = "record", !.row = row]
<1>1. /\ calls[c] # NULL /\ calls[c].op = "injectPlugin" /\ calls[c].op \in PluginOps /\ calls[c].at = "lookup"
      /\ UNCHANGED <<tables, device, mix, spent, story>>
      /\ calls' = [calls EXCEPT ![c].at = "record", ![c].row = row]
  BY DEF LookupInjection, Busy, PluginOps
<1>2. TypeOK /\ InjectionInv /\ TableInv
  BY DEF IInv
<1>3. /\ row \in Nat \cup {NULL} /\ (row # NULL <=> i # NULL)
      /\ row # NULL => /\ row < spent.serial
                       /\ \A j \in injections : j.id = row => <<j.board, j.plugin>> = Pair(c)
      /\ row = NULL => \/ RowsOf(calls[c].board, calls[c].plugin) = {}
                       \/ "twice" \in story.pairs[Pair(c)]
  <2>1. CASE i # NULL
    <3>1. i \in injections /\ i \in RowsOf(calls[c].board, calls[c].plugin)
      BY <1>2, <2>1, OnlyRow
    <3>2. <<i.board, i.plugin>> = Pair(c)
      BY <3>1 DEF RowsOf, Pair
    <3>. HIDE DEF i
    <3>3. i.id \in Nat /\ i.id # NULL /\ i.id < spent.serial
      BY <1>2, <3>1, NullAssumption DEF TypeOK, TableInv, Injections
    <3>4. \A j \in injections : j.id = i.id => j = i
      BY <1>2, <3>1 DEF TableInv
    <3>. QED BY <2>1, <3>2, <3>3, <3>4
  <2>2. CASE i = NULL
    <3>1. ASSUME RowsOf(calls[c].board, calls[c].plugin) # {}
          PROVE  "twice" \in story.pairs[Pair(c)]
      <4>1. PICK j \in RowsOf(calls[c].board, calls[c].plugin) : TRUE
        BY <3>1
      <4>2. RowsOf(calls[c].board, calls[c].plugin) # {j}
        <5>1. SUFFICES ASSUME RowsOf(calls[c].board, calls[c].plugin) = {j} PROVE FALSE
          OBVIOUS
        <5>2. i = j
          BY <5>1 DEF InjectionByUuids
        <5>3. j \in Injections
          BY <1>2, <4>1 DEF RowsOf, TypeOK
        <5>. QED BY <2>2, <5>2, <5>3, NullAssumption
      <4>3. PICK k \in RowsOf(calls[c].board, calls[c].plugin) : k # j
        BY <4>1, <4>2
      <4>. QED BY <1>2, <4>1, <4>3 DEF InjectionInv, OneInjection, RowsOf, Pair
    <3>. QED BY <2>2, <3>1
  <2>. QED BY <2>1, <2>2
<1>4. calls' = [calls EXCEPT ![c] = m]
  BY <1>1, <1>2 DEF TypeOK
<1>5. m = [calls[c] EXCEPT !.at = "record", !.row = row]
  OBVIOUS
<1>6. calls[c] \in PluginCalls
  BY <1>1, <1>2, CallKinds DEF TypeOK
<1>. HIDE DEF i, row, m
<1>7. /\ m \in PluginCalls /\ m.at = "record" /\ m.row = row /\ m.op = calls[c].op
      /\ m.board = calls[c].board /\ m.plugin = calls[c].plugin /\ m.result = calls[c].result
  BY <1>3, <1>5, <1>6 DEF PluginCalls, Labels
<1>8. m \in Calls /\ m # NULL
  BY <1>7, NullAssumption DEF Calls
<1>9. calls' \in [Clients -> Calls \cup {NULL}] /\ calls'[c] = m /\ OnlyCall(c)
  BY <1>1, <1>2, <1>4, <1>7, <1>8, ZenonT(60) DEF TypeOK, OnlyCall
<1>10. /\ UNCHANGED <<rows, located, injections, exposed, born, installed, allowed, free, mix, spent, story>>
       /\ StoryGrows /\ story' \in Stories
  BY <1>1, <1>2 DEF tables, device, StoryGrows, TypeOK
<1>11. Pair(c)' = Pair(c)
  BY <1>7, <1>9 DEF Pair
<1>12. CrossInv'
  BY <1>1, <1>2, <1>9, <1>10, CrossStep DEF InjectionInv
<1>13. OneInjection'
  BY <1>2, <1>10 DEF OneInjection, InjectionInv
<1>14. RowsShrink
  BY <1>2, <1>10 DEF RowsShrink, TypeOK
<1>15. ASSUME NEW d \in Clients, d # c, calls'[d] # NULL, calls'[d].op \in PluginOps
       PROVE  HoldsRow(d)' /\ HoldsAnswer(d)'
  BY <1>9, <1>10, <1>14, <1>15, OthersHold
<1>16. HoldsRow(c)'
  BY <1>1, <1>3, <1>7, <1>9, <1>10, <1>11 DEF HoldsRow, RowsOf
<1>17. HoldsAnswer(c)'
  <2>1. HoldsAnswer(c) /\ IsThere(c)' = IsThere(c)
    BY <1>1, <1>2, <1>7, <1>9, <1>10 DEF InjectionInv, AnswerInv, IsThere
  <2>. QED BY <1>1, <1>7, <1>9, <1>10, <1>11, <2>1 DEF HoldsAnswer
<1>18. ASSUME NEW q \in Pairs PROVE PairAgrees(q)'
  <2>1. PairAgrees(q) /\ RowsOf(q[1], q[2])' = RowsOf(q[1], q[2]) /\ Exists("boards", q[1])' = Exists("boards", q[1])
    BY <1>2, <1>10 DEF AgreeInv, RowsOf, Exists, InjectionInv
  <2>2. \A op : \A at \in SUBSET {"lookup", "record"} : Underway(q, op, at) =>
          Underway(q, op, at)' \/ (calls[c].op = op /\ calls[c].at \in at /\ calls[c].result = "SUCCESS" /\ Pair(c) = q)
    BY <1>9, UnderwayStays
  <2>3. Underway(q, "injectPlugin", {"lookup", "record"}) => Underway(q, "injectPlugin", {"lookup", "record"})'
    <3>1. CASE calls[c].result = "SUCCESS" /\ Pair(c) = q
      BY <1>1, <1>7, <1>8, <1>9, <1>11, <3>1 DEF Underway
    <3>. QED BY <2>2, <3>1
  <2>4. Underway(q, "removePlugin", {"record"}) => Underway(q, "removePlugin", {"record"})'
    BY <1>1, <2>2
  <2>. QED BY <1>10, <2>1, <2>3, <2>4 DEF PairAgrees
<1>19. InjectionInv'
  BY <1>12, <1>13, <1>15, <1>16, <1>17, <1>18 DEF RowInv, AnswerInv, AgreeInv, InjectionInv
<1>20. PortKeeps(c)
  BY <1>1, <1>7, <1>9 DEF PortKeeps, Taking
<1>21. calls[c].op \in DeviceOps \ {"enableService"}
  BY <1>1 DEF DeviceOps, PluginOps
<1>22. /\ injections' \subseteq Injections /\ installed' \in [Boards -> SUBSET Plugins]
       /\ spent' \in [calls : Nat, toggles : Nat, crashes : Nat, serial : Nat]
       /\ \A b \in Boards : b \notin born.boards => installed'[b] = {}
       /\ \A j \in injections' : j.id < spent'.serial
       /\ \A j, k \in injections' : j.id = k.id => j = k
  BY <1>2, <1>10 DEF TypeOK, TableInv, IInv
<1>. QED BY <1>9, <1>10, <1>19, <1>20, <1>21, <1>22, PluginStep

(* A call that writes an injection ends.                                    *)
LEMMA RecordEnds ==
  ASSUME IInv, NEW c \in Clients, calls[c] # NULL, calls[c].op \in PluginOps, calls[c].at = "record",
         Return(c), UNCHANGED <<rows, located, exposed, born, device, mix>>,
         injections' \subseteq Injections,
         spent' \in [calls : Nat, toggles : Nat, crashes : Nat, serial : Nat],
         \A i \in injections' : i.id < spent'.serial,
         \A i, j \in injections' : i.id = j.id => i = j,
         story' \in Stories, StoryGrows, OneInjection',
         \A d \in Clients \ {c} : calls'[d] # NULL /\ calls'[d].op \in PluginOps =>
                                    HoldsRow(d)' /\ HoldsAnswer(d)',
         \A q \in Pairs : q = Pair(c) => PairAgrees(q)',
         \A q \in Pairs : q # Pair(c) => RowsOf(q[1], q[2])' = {} <=> RowsOf(q[1], q[2]) = {}
  PROVE  IInv'
<1>1. /\ calls' \in [Clients -> Calls \cup {NULL}] /\ calls'[c] = NULL
      /\ \A d \in Clients \ {c} : calls'[d] = calls[d]
  BY ReturnStep DEF IInv
<1>2. OnlyCall(c)
  BY <1>1 DEF OnlyCall
<1>3. CrossInv'
  BY <1>1, <1>2, CrossStep DEF IInv, InjectionInv
<1>4. installed' = installed /\ UNCHANGED <<allowed, free>>
  BY DEF device
<1>5. ASSUME NEW q \in Pairs, q # Pair(c) PROVE PairAgrees(q)'
  <2>1. /\ PairAgrees(q) /\ (RowsOf(q[1], q[2])' = {} <=> RowsOf(q[1], q[2]) = {})
        /\ Exists("boards", q[1])' = Exists("boards", q[1])
    BY <1>5 DEF AgreeInv, Exists, IInv, InjectionInv
  <2>2. \A op : \A at \in SUBSET {"lookup", "record"} : Underway(q, op, at) => Underway(q, op, at)'
    BY <1>2, <1>5, UnderwayStays
  <2>3. /\ Underway(q, "injectPlugin", {"lookup", "record"}) => Underway(q, "injectPlugin", {"lookup", "record"})'
        /\ Underway(q, "removePlugin", {"record"}) => Underway(q, "removePlugin", {"record"})'
    BY <2>2
  <2>. QED BY <1>4, <2>1, <2>3 DEF PairAgrees, StoryGrows
<1>6. InjectionInv'
  BY <1>1, <1>3, <1>5 DEF RowInv, AnswerInv, AgreeInv, InjectionInv
<1>7. PortKeeps(c)
  BY <1>1 DEF PortKeeps, Taking, PluginOps
<1>8. calls[c].op \in DeviceOps \ {"enableService"}
  BY DEF DeviceOps, PluginOps
<1>9. installed' \in [Boards -> SUBSET Plugins] /\ \A b \in Boards : b \notin born.boards => installed'[b] = {}
  BY <1>4 DEF IInv, TypeOK, TableInv
<1>. QED BY <1>1, <1>2, <1>4, <1>6, <1>7, <1>8, <1>9, PluginStep

(* inject_plugin writes the row it has found, if it is still there.         *)
LEMMA SaveInjectionInv ==
  ASSUME IInv, NEW c \in Clients, SaveInjection(c)
  PROVE  IInv'
<1>1. /\ calls[c] # NULL /\ calls[c].op = "injectPlugin" /\ calls[c].op \in PluginOps
      /\ calls[c].at = "record" /\ calls[c].row # NULL /\ Return(c)
      /\ UNCHANGED <<rows, located, exposed, born, device, mix, spent>>
      /\ TypeOK /\ TableInv /\ InjectionInv /\ HoldsRow(c)
  BY DEF SaveInjection, Busy, PluginOps, Raise, IInv, InjectionInv, RowInv
<1>2. CASE Raise(c) /\ UNCHANGED injections
  BY <1>1, <1>2, RaiseInv DEF tables
<1>. DEFINE written == [i \in injections |-> IF i.id = calls[c].row THEN [i EXCEPT !.status = "updated"] ELSE i]
<1>3. CASE /\ \E i \in injections : i.id = calls[c].row
           /\ injections' = {written[i] : i \in injections} /\ UNCHANGED story
  <2>1. \A i \in injections : /\ written[i] \in Injections /\ written[i].id = i.id
                              /\ written[i].board = i.board /\ written[i].plugin = i.plugin
    BY <1>1 DEF TypeOK, Injections
  <2>2. \A j \in injections' : \E i \in injections : j = written[i]
    BY <1>3
  <2>3. \A i \in injections : written[i] \in injections'
    BY <1>3
  <2>. HIDE DEF written
  <2>5. RowsShrink
    BY <1>1, <2>1, <2>2 DEF RowsShrink, TypeOK
  <2>6. story' \in Stories /\ StoryGrows
    BY <1>1, <1>3 DEF TypeOK, StoryGrows
  <2>7. /\ injections' \subseteq Injections
        /\ spent' \in [calls : Nat, toggles : Nat, crashes : Nat, serial : Nat]
        /\ \A i \in injections' : i.id < spent'.serial
        /\ \A i, j \in injections' : i.id = j.id => i = j
    BY <1>1, <2>1, <2>2 DEF TypeOK, TableInv
  <2>8. OneInjection'
    BY <1>1, <1>3, <2>1, <2>2 DEF OneInjection, InjectionInv
  <2>9. \A q \in Pairs : RowsOf(q[1], q[2])' = {} <=> RowsOf(q[1], q[2]) = {}
    BY <2>1, <2>2, <2>3 DEF RowsOf
  <2>10. /\ calls'[c] = NULL /\ \A d \in Clients \ {c} : calls'[d] = calls[d]
         /\ installed' = installed /\ UNCHANGED rows
    BY <1>1, ReturnStep DEF device
  <2>11. OnlyCall(c)
    BY <1>1, <2>10 DEF OnlyCall
  <2>12. \A d \in Clients \ {c} : calls'[d] # NULL /\ calls'[d].op \in PluginOps =>
                                    HoldsRow(d)' /\ HoldsAnswer(d)'
    BY <2>5, <2>6, <2>10, <2>11, OthersHold
  <2>13. ASSUME NEW q \in Pairs, q = Pair(c) PROVE PairAgrees(q)'
    <3>1. RowsOf(q[1], q[2]) # {}
      BY <1>1, <1>3, <2>13 DEF HoldsRow, RowsOf
    <3>2. PairAgrees(q) /\ RowsOf(q[1], q[2])' # {}
      BY <1>1, <2>9, <3>1 DEF InjectionInv, AgreeInv
    <3>3. Underway(q, "removePlugin", {"record"}) => Underway(q, "removePlugin", {"record"})'
      <4>1. \A op : \A at \in SUBSET {"lookup", "record"} : Underway(q, op, at) =>
              Underway(q, op, at)' \/ calls[c].op = op
        BY <2>11, UnderwayStays
      <4>. QED BY <1>1, <4>1
    <3>. QED BY <1>3, <2>10, <3>1, <3>2, <3>3 DEF PairAgrees
  <2>. QED BY <1>1, <2>6, <2>7, <2>8, <2>9, <2>12, <2>13, RecordEnds
<1>. QED BY <1>2, <1>3 DEF SaveInjection

(* remove_plugin destroys the row it has read.                              *)
LEMMA DestroyInjectionInv ==
  ASSUME IInv, NEW c \in Clients, DestroyInjection(c)
  PROVE  IInv'
<1>1. /\ calls[c] # NULL /\ calls[c].op = "removePlugin" /\ calls[c].op \in PluginOps
      /\ calls[c].at = "record" /\ Return(c)
      /\ injections' = {i \in injections : i.id # calls[c].row}
      /\ UNCHANGED <<rows, located, exposed, born, device, mix, spent, story>>
      /\ TypeOK /\ TableInv /\ InjectionInv /\ HoldsRow(c) /\ HoldsAnswer(c)
  BY DEF DestroyInjection, Busy, PluginOps, IInv, InjectionInv, RowInv, AnswerInv
<1>2. /\ calls'[c] = NULL /\ \A d \in Clients \ {c} : calls'[d] = calls[d]
      /\ installed' = installed /\ Pair(c) \in Pairs /\ Pair(c) = <<calls[c].board, calls[c].plugin>>
  BY <1>1, ReturnStep, PairOf DEF device
<1>3. OnlyCall(c) /\ RowsShrink
  BY <1>1, <1>2 DEF OnlyCall, RowsShrink, TypeOK
<1>4. story' \in Stories /\ StoryGrows
  BY <1>1 DEF TypeOK, StoryGrows
<1>5. /\ injections' \subseteq Injections
      /\ spent' \in [calls : Nat, toggles : Nat, crashes : Nat, serial : Nat]
      /\ \A i \in injections' : i.id < spent'.serial
      /\ \A i, j \in injections' : i.id = j.id => i = j
  BY <1>1 DEF TypeOK, TableInv
<1>6. OneInjection'
  BY <1>1 DEF OneInjection, InjectionInv
<1>7. \A d \in Clients \ {c} : calls'[d] # NULL /\ calls'[d].op \in PluginOps =>
                                 HoldsRow(d)' /\ HoldsAnswer(d)'
  BY <1>2, <1>3, <1>4, OthersHold
<1>8. \A q \in Pairs : q # Pair(c) => RowsOf(q[1], q[2])' = {} <=> RowsOf(q[1], q[2]) = {}
  <2>1. \A i \in injections : i.id = calls[c].row => <<i.board, i.plugin>> = Pair(c)
    BY <1>1 DEF HoldsRow
  <2>2. \A q \in Pairs : q # Pair(c) => RowsOf(q[1], q[2])' = RowsOf(q[1], q[2])
    BY <1>1, <2>1 DEF RowsOf, Pairs
  <2>. QED BY <2>2
<1>9. ASSUME NEW q \in Pairs, q = Pair(c) PROVE PairAgrees(q)'
  <2>1. RowsOf(q[1], q[2])' = {} \/ "crossed" \in story.pairs[q]
    BY <1>1, <1>2, <1>9 DEF HoldsRow, RowsOf
  <2>2. q[2] \in installed[q[1]] => "crossed" \in story.pairs[q]
    BY <1>1, <1>2, <1>9 DEF HoldsAnswer, IsThere
  <2>. QED BY <1>1, <1>2, <2>1, <2>2 DEF PairAgrees
<1>. QED BY <1>1, <1>4, <1>5, <1>6, <1>7, <1>8, <1>9, RecordEnds

(* inject_plugin creates the row: one is there already only if another call *)
(* has looked for it too.                                                   *)
LEMMA CreateInjectionInv ==
  ASSUME IInv, NEW c \in Clients, CreateInjection(c)
  PROVE  IInv'
<1>. DEFINE x == [id |-> spent.serial, board |-> calls[c].board, plugin |-> calls[c].plugin,
                  status |-> "injected"]
            Twin(d) == Busy(d, "injectPlugin", "record") /\ calls[d].row = NULL /\ Pair(d) = Pair(c)
            s == IF \E d \in Clients \ {c} : Twin(d)
                 THEN [story EXCEPT !.pairs[Pair(c)] = @ \cup {"twice"}] ELSE story
<1>1. /\ calls[c] # NULL /\ calls[c].op = "injectPlugin" /\ calls[c].op \in PluginOps
      /\ calls[c].at = "record" /\ calls[c].row = NULL /\ Return(c)
      /\ UNCHANGED <<rows, located, exposed, born, device, mix>>
      /\ TypeOK /\ TableInv /\ InjectionInv /\ HoldsRow(c) /\ HoldsAnswer(c)
  BY DEF CreateInjection, Busy, PluginOps, Raise, IInv, InjectionInv, RowInv, AnswerInv
<1>2. CASE Raise(c) /\ UNCHANGED <<injections, spent>>
  BY <1>1, <1>2, RaiseInv DEF tables
<1>3. CASE injections' = injections \cup {x} /\ spent' = [spent EXCEPT !.serial = @ + 1] /\ story' = s
  <2>1. /\ calls'[c] = NULL /\ \A d \in Clients \ {c} : calls'[d] = calls[d]
        /\ installed' = installed /\ Pair(c) \in Pairs /\ Pair(c) = <<calls[c].board, calls[c].plugin>>
        /\ calls[c].board \in Boards /\ calls[c].plugin \in Plugins
    BY <1>1, ReturnStep, PairOf DEF device
  <2>2. OnlyCall(c)
    BY <1>1, <2>1 DEF OnlyCall
  <2>3. /\ story' \in Stories /\ StoryGrows
        /\ (\E d \in Clients \ {c} : Twin(d)) => "twice" \in story'.pairs[Pair(c)]
    <3>1. {"twice"} \in SUBSET Marks
      BY DEF Marks
    <3>2. [story EXCEPT !.pairs[Pair(c)] = @ \cup {"twice"}].pairs[Pair(c)] = story.pairs[Pair(c)] \cup {"twice"}
      BY <1>1, <2>1 DEF TypeOK, Stories
    <3>3. story' \in {story, [story EXCEPT !.pairs[Pair(c)] = @ \cup {"twice"}]}
      BY <1>3
    <3>4. (\E d \in Clients \ {c} : Twin(d)) => "twice" \in story'.pairs[Pair(c)]
      BY <1>3, <3>2
    <3>. QED BY <1>1, <2>1, <3>1, <3>3, <3>4, Noted
  <2>4. /\ x \in Injections /\ x.id = spent.serial /\ <<x.board, x.plugin>> = Pair(c)
        /\ x.board = calls[c].board /\ x.plugin = calls[c].plugin
    BY <1>1, <2>1 DEF TypeOK, Injections
  <2>. HIDE DEF x, s
  <2>5. spent.serial \in Nat /\ spent'.serial = spent.serial + 1
        /\ spent' \in [calls : Nat, toggles : Nat, crashes : Nat, serial : Nat]
    BY <1>1, <1>3 DEF TypeOK
  <2>6. \A i \in injections : i.id \in Nat /\ i.id < spent.serial
    BY <1>1 DEF TypeOK, TableInv, Injections
  <2>7. /\ injections' \subseteq Injections
        /\ \A i \in injections' : i.id < spent'.serial
        /\ \A i, j \in injections' : i.id = j.id => i = j
    BY <1>1, <1>3, <2>4, <2>5, <2>6 DEF TypeOK, TableInv
  <2>8. OneInjection'
    <3>1. ASSUME NEW i \in injections, <<i.board, i.plugin>> = Pair(c)
          PROVE  "twice" \in story'.pairs[Pair(c)]
      <4>1. i \in RowsOf(calls[c].board, calls[c].plugin)
        BY <2>1, <3>1 DEF RowsOf
      <4>2. "twice" \in story.pairs[Pair(c)]
        BY <1>1, <4>1 DEF HoldsRow
      <4>. QED BY <2>1, <2>3, <4>2 DEF StoryGrows
    <3>2. \A i, j \in injections : i.board = j.board /\ i.plugin = j.plugin =>
            i = j \/ "twice" \in story'.pairs[<<i.board, i.plugin>>]
      BY <1>1, <2>3 DEF OneInjection, InjectionInv, StoryGrows, TypeOK, Injections, Pairs
    <3>. QED BY <1>3, <2>4, <3>1, <3>2 DEF OneInjection
  <2>9. \A b \in Boards : \A p \in Plugins : <<b, p>> # Pair(c) => RowsOf(b, p)' = RowsOf(b, p)
    BY <1>3, <2>4 DEF RowsOf
  <2>10. ASSUME NEW d \in Clients, d # c, calls'[d] # NULL, calls'[d].op \in PluginOps
         PROVE  HoldsRow(d)' /\ HoldsAnswer(d)'
    <3>1. calls'[d] = calls[d] /\ HoldsRow(d) /\ HoldsAnswer(d)
      BY <1>1, <2>1, <2>10 DEF InjectionInv, RowInv, AnswerInv
    <3>2. /\ calls[d].board \in Boards /\ calls[d].plugin \in Plugins /\ Pair(d) \in Pairs
          /\ Pair(d) = <<calls[d].board, calls[d].plugin>> /\ Pair(d)' = Pair(d)
          /\ calls[d].row \in Nat \cup {NULL}
      BY <1>1, <2>10, <3>1, PairOf DEF Pair
    <3>3. HoldsAnswer(d)'
      <4>1. IsThere(d)' = IsThere(d)
        BY <2>1, <3>1 DEF IsThere
      <4>. QED BY <1>1, <2>3, <2>10, <3>1, <4>1, AnswerStays
    <3>4. calls[d].row # NULL =>
            /\ calls[d].row < spent'.serial
            /\ \A i \in injections' : i.id = calls[d].row => <<i.board, i.plugin>> = Pair(d)
      BY <1>3, <2>4, <2>5, <3>1, <3>2 DEF HoldsRow
    <3>5. calls[d].op = "removePlugin" /\ calls[d].at # "read" =>
            /\ calls[d].row # NULL
            /\ \/ "crossed" \in story'.pairs[Pair(d)]
               \/ \A i \in RowsOf(calls[d].board, calls[d].plugin)' : i.id = calls[d].row
      <4>1. CASE Pair(d) = Pair(c)
        BY <1>1, <2>3, <2>10, <3>1, <3>2, <4>1, Met DEF HoldsRow
      <4>2. CASE Pair(d) # Pair(c)
        <5>1. \A b, p : b = calls[d].board /\ p = calls[d].plugin => RowsOf(b, p)' = RowsOf(b, p)
          BY <2>9, <3>2, <4>2
        <5>2. RowsOf(calls[d].board, calls[d].plugin)' = RowsOf(calls[d].board, calls[d].plugin)
          BY <3>1, <5>1
        <5>. QED BY <2>3, <3>1, <3>2, <5>2 DEF HoldsRow, StoryGrows
      <4>. QED BY <4>1, <4>2
    <3>6. calls[d].op = "injectPlugin" /\ calls[d].at = "record" /\ calls[d].row = NULL =>
            RowsOf(calls[d].board, calls[d].plugin)' = {} \/ "twice" \in story'.pairs[Pair(d)]
      <4>1. CASE Pair(d) = Pair(c)
        BY <2>3, <2>10, <3>1, <4>1 DEF Busy
      <4>2. CASE Pair(d) # Pair(c)
        <5>1. \A b, p : b = calls[d].board /\ p = calls[d].plugin => RowsOf(b, p)' = RowsOf(b, p)
          BY <2>9, <3>2, <4>2
        <5>2. RowsOf(calls[d].board, calls[d].plugin)' = RowsOf(calls[d].board, calls[d].plugin)
          BY <3>1, <5>1
        <5>. QED BY <2>3, <3>1, <3>2, <5>2 DEF HoldsRow, StoryGrows
      <4>. QED BY <4>1, <4>2
    <3>7. HoldsRow(d)'
      BY <3>1, <3>2, <3>4, <3>5, <3>6 DEF HoldsRow
    <3>. QED BY <3>3, <3>7
  <2>11. \A q \in Pairs : q # Pair(c) => RowsOf(q[1], q[2])' = {} <=> RowsOf(q[1], q[2]) = {}
    BY <2>9 DEF Pairs
  <2>12. ASSUME NEW q \in Pairs, q = Pair(c) PROVE PairAgrees(q)'
    <3>1. RowsOf(q[1], q[2])' # {}
      BY <1>3, <2>1, <2>4, <2>12 DEF RowsOf
    <3>2. q[2] \in installed[q[1]] \/ story.pairs[q] \cap {"lost", "failed", "reset", "crossed"} # {}
      BY <1>1, <2>1, <2>12 DEF HoldsAnswer, IsThere
    <3>. QED BY <2>1, <2>3, <3>1, <3>2 DEF PairAgrees, StoryGrows
  <2>. QED BY <1>1, <2>3, <2>5, <2>7, <2>8, <2>10, <2>11, <2>12, RecordEnds
<1>. QED BY <1>2, <1>3 DEF CreateInjection
-----------------------------------------------------------------------------
(* The invariant and what follows from it                                    *)
LEMMA InitInv ==
  ASSUME Init
  PROVE  IInv
<1>. USE DEF Init
<1>1. \A t \in Tables : First(t) \in Uuids(t)
  BY InventoryAssumption DEF First, Tables, Uuids
<1>. DEFINE n == CHOOSE n \in Names : TRUE
            Start(t) == [id \in Uuids(t) |->
                           IF id # First(t) THEN NULL
                           ELSE IF t = "boards" THEN [name |-> n, status |-> "online", fleet |-> NULL]
                           ELSE [name |-> n, extra |-> FALSE]]
<1>2. n \in Names
  BY InventoryAssumption
<1>3. rows = [t \in Tables |-> Start(t)]
  OBVIOUS
<1>. HIDE DEF n
<1>4. \A t \in Tables : rows[t] = Start(t)
  BY <1>3
<1>5. \A t \in Tables : rows[t] \in [Uuids(t) -> Row(t) \cup {NULL}]
  <2>1. [name |-> n, status |-> "online", fleet |-> NULL] \in Row("boards")
    BY <1>2 DEF Row, Status
  <2>2. \A t \in Tables \ {"boards"} : [name |-> n, extra |-> FALSE] \in Row(t)
    BY <1>2 DEF Row
  <2>. QED BY <1>4, <2>1, <2>2
<1>6. rows = [t \in Tables |-> rows[t]]
  BY <1>3
<1>7. \A t \in Tables : \A id \in Uuids(t) : Exists(t, id) => id = First(t)
  BY <1>4 DEF Exists
<1>8. /\ located = {First("boards")} /\ injections = {} /\ exposed = {} /\ allowed = {} /\ free = Ports
      /\ born = [t \in Tables |-> {First(t)}] /\ installed = [b \in Boards |-> {}]
      /\ calls = [c \in Clients |-> NULL] /\ mix \in Mixes
      /\ spent = [calls |-> 0, toggles |-> 0, crashes |-> 0, serial |-> 1]
      /\ story = [pairs |-> [p \in Pairs |-> {}], clash |-> {}, cut |-> {}, stray |-> {}]
  OBVIOUS
<1>9. "boards" \in Tables /\ Uuids("boards") = Boards
  BY DEF Tables, Uuids
<1>. HIDE DEF Init
<1>10. TypeOK
  <2>1. story \in Stories
    BY <1>8 DEF Stories
  <2>2. spent \in [calls : Nat, toggles : Nat, crashes : Nat, serial : Nat]
    BY <1>8
  <2>. QED BY <1>1, <1>5, <1>6, <1>8, <1>9, <2>1, <2>2 DEF TypeOK
<1>11. TableInv
  BY <1>7, <1>8 DEF TableInv
<1>12. CallInv /\ InjectionInv
  BY <1>8 DEF CallInv, InjectionInv, OneInjection, RowInv, AnswerInv, CrossInv, AgreeInv, PairAgrees, RowsOf, Pairs
<1>13. NameInv /\ HasLocation
  BY <1>7, <1>8, <1>9 DEF NameInv, UniqueName, Busy, HasLocation
<1>14. PortInv
  BY <1>8 DEF PortInv, ClaimInv, ListInv, EntryInv, Taking
<1>. QED BY <1>10, <1>11, <1>12, <1>13, <1>14 DEF IInv

(* The handlers of the conductor.                                           *)
LEMMA ConductorInv ==
  ASSUME IInv, NEW c \in Clients, Conductor(c)
  PROVE  IInv'
<1>1. CASE CheckName(c) \/ InsertBoard(c) \/ CreateLocation(c) \/ UpdateBoard(c)
  BY <1>1, CheckNameInv, InsertBoardInv, CreateLocationInv, UpdateBoardInv
<1>2. CASE ReadBoard(c) \/ ListExposed(c) \/ RemoveAllowed(c) \/ DestroyBoard(c)
  BY <1>2, ReadBoardInv, ListExposedInv, RemoveAllowedInv, DestroyBoardInv
<1>3. CASE \/ CreatePlugin(c) \/ UpdatePlugin(c) \/ DestroyPlugin(c)
           \/ CreateService(c) \/ UpdateService(c) \/ DestroyService(c)
           \/ CreateFleet(c) \/ UpdateFleet(c) \/ DestroyFleet(c)
  BY <1>3, EntityInv
<1>4. CASE InjectPlugin(c) \/ RemovePlugin(c) \/ ActionPlugin(c) \/ ExecuteOnBoard(c)
  BY <1>4, InjectPluginInv, RemovePluginInv, ActionPluginInv, ExecuteOnBoardInv
<1>5. CASE LookupInjection(c) \/ SaveInjection(c) \/ CreateInjection(c) \/ DestroyInjection(c)
  BY <1>5, LookupInjectionInv, SaveInjectionInv, CreateInjectionInv, DestroyInjectionInv
<1>6. CASE EnableService(c) \/ AddAllowed(c) \/ CreateExposed(c) \/ AgentUnreachable(c)
  BY <1>6, EnableServiceInv, AddAllowedInv, CreateExposedInv, AgentUnreachableInv
<1>. QED BY <1>1, <1>2, <1>3, <1>4, <1>5, <1>6 DEF Conductor

(* Every step keeps the invariant.                                          *)
LEMMA NextInv ==
  ASSUME IInv, [Next]_vars
  PROVE  IInv'
<1>1. CASE UNCHANGED vars
  <2>1. UNCHANGED <<tables, device, mix, spent, story, calls>>
    BY <1>1 DEF vars
  <2>2. story' \in Stories /\ StoryGrows /\ calls' \in [Clients -> Calls \cup {NULL}]
        /\ spent' \in [calls : Nat, toggles : Nat, crashes : Nat, serial : Nat]
    BY <2>1 DEF IInv, TypeOK, StoryGrows
  <2>3. \A c \in Clients : Keeps(c)
    BY <2>1, <2>2, SameKeeps DEF IInv
  <2>4. CallInv'
    BY <2>1, CallsStay DEF IInv, tables
  <2>. QED BY <2>1, <2>2, <2>3, <2>4, QuietStep
<1>2. ASSUME NEW c \in Clients, Controller(c) \/ Conductor(c)
      PROVE  IInv'
  BY <1>2, ControllerInv, ConductorInv
<1>3. ASSUME NEW c \in Clients, Board(c)
      PROVE  IInv'
  BY <1>3, BoardDoesInv, BoardRefusesInv, CallTimesOutInv, OrphanRunsInv, OrphanIsLostInv DEF Board
<1>4. ASSUME NEW b \in Boards, BoardConnects(b) \/ BoardLeaves(b)
      PROVE  IInv'
  BY <1>4, SetStatusInv DEF BoardConnects, BoardLeaves, Status
<1>. QED BY <1>1, <1>2, <1>3, <1>4, ConductorCrashesInv DEF Next

(* The conjunction of TypeOK and of what calls, names, injections,          *)
(* locations and ports owe one another is an invariant.                     *)
THEOREM Inductive == Spec => []IInv
BY InitInv, NextInv, PTL DEF Spec

(* Every variable keeps its type.                                           *)
THEOREM TypeCorrect == Spec => []TypeOK
<1>1. IInv => TypeOK
  BY DEF IInv
<1>. QED BY <1>1, Inductive, PTL

(* create_board checks that no board has the name, and two boards have the  *)
(* same only if a PATCH gave it or two creations had both found it free.    *)
THEOREM NameIsUnique == Spec => []UniqueName
<1>1. IInv => UniqueName
  BY DEF IInv, NameInv
<1>. QED BY <1>1, Inductive, PTL

(* inject_plugin writes a second row of a plugin on a board only if another *)
(* call was about to create it too.                                         *)
THEOREM InjectionIsOne == Spec => []OneInjection
<1>1. IInv => OneInjection
  BY DEF IInv, InjectionInv
<1>. QED BY <1>1, Inductive, PTL

(* With no call under way on a plugin and a board, the table of injections  *)
(* and the memory of the board agree, but for the cases that are named.     *)
THEOREM InjectionsAlwaysAgree == Spec => []InjectionsAgree
<1>1. ASSUME IInv PROVE InjectionsAgree
  <2>1. AgreeInv /\ injections \subseteq Injections
    BY <1>1 DEF IInv, InjectionInv, TypeOK
  <2>2. ASSUME NEW q \in Pairs, Quiet(q), NEW op \in PluginOps, NEW at
        PROVE  ~Underway(q, op, at)
    BY <2>2 DEF Quiet, Underway
  <2>3. \A q \in Pairs : Quiet(q) => ~Underway(q, "injectPlugin", {"lookup", "record"})
                                     /\ ~Underway(q, "removePlugin", {"record"})
    BY <2>2 DEF PluginOps
  <2>4. InstalledIsRecorded
    BY <2>1, <2>3 DEF InstalledIsRecorded, AgreeInv, PairAgrees
  <2>5. RecordedIsInstalled
    <3>. SUFFICES ASSUME NEW i \in injections, NEW q, q = <<i.board, i.plugin>>, Quiet(q)
                  PROVE  \/ q[2] \in installed[q[1]]
                         \/ story.pairs[q] \cap {"lost", "failed", "reset", "crossed"} # {}
      BY DEF RecordedIsInstalled
    <3>1. q \in Pairs /\ i \in RowsOf(q[1], q[2])
      BY <2>1 DEF Injections, Pairs, RowsOf
    <3>. QED BY <2>1, <2>3, <3>1 DEF AgreeInv, PairAgrees
  <2>. QED BY <2>4, <2>5 DEF InjectionsAgree
<1>. QED BY <1>1, Inductive, PTL

(* create_board and destroy_board leave no board without a location and no  *)
(* entry of the allow list without a board, but for the cases that are named.*)
THEOREM BoardIsAlwaysWhole == Spec => []BoardIsWhole
<1>1. ASSUME IInv PROVE BoardIsWhole
  <2>1. HasLocation /\ EntryInv /\ \A x \in exposed : Exists("boards", x.board)
    BY <1>1 DEF IInv, PortInv, TableInv
  <2>2. AllowedIsOwned
    BY <2>1 DEF AllowedIsOwned, EntryInv, Taking
  <2>. QED BY <2>1, <2>2 DEF BoardIsWhole
<1>. QED BY <1>1, Inductive, PTL

(* The handlers of plugins, services and fleets leave the boards alone.     *)
LEMMA EntityBoards ==
  ASSUME IInv, NEW c \in Clients,
         \/ CreatePlugin(c) \/ UpdatePlugin(c) \/ DestroyPlugin(c)
         \/ CreateService(c) \/ UpdateService(c) \/ DestroyService(c)
         \/ CreateFleet(c) \/ UpdateFleet(c) \/ DestroyFleet(c)
  PROVE  rows'.boards = rows.boards
<1>1. rows = [t \in Tables |-> rows[t]] /\ "boards" \in Tables
  BY DEF IInv, TypeOK, Tables
<1>2. UNCHANGED rows \/ \E t \in Tables \ {"boards"} : \E id, row : rows' = [rows EXCEPT ![t][id] = row]
  BY ZenonT(60) DEF CreatePlugin, UpdatePlugin, DestroyPlugin, CreateService, UpdateService, DestroyService,
         CreateFleet, UpdateFleet, DestroyFleet, Transaction, CreatePluginRow, CreateServiceRow,
         CreateFleetRow, UpdatePluginRow, UpdateServiceRow, UpdateFleetRow, DestroyPluginRow,
         DestroyServiceRow, DestroyFleetRow, Insert, UpdateEntityRow, DestroyEntityRow, UpdateRow,
         DeleteRow, Tables
<1>3. CASE \E t \in Tables \ {"boards"} : \E id, row : rows' = [rows EXCEPT ![t][id] = row]
  <2>1. PICK t \in Tables \ {"boards"} : \E id, row : rows' = [rows EXCEPT ![t][id] = row]
    BY <1>3
  <2>2. PICK id, row : rows' = [rows EXCEPT ![t][id] = row]
    BY <2>1
  <2>. QED BY <1>1, <2>1, <2>2
<1>. QED BY <1>2, <1>3

(* The steps that change the row of a board that stays: a PATCH is saved,   *)
(* or the board connects or disconnects.                                    *)
LEMMA RowChanges ==
  ASSUME IInv, [Next]_vars, NEW b \in Boards, Exists("boards", b), rows'.boards[b] # NULL
  PROVE  \/ rows'.boards[b] = rows.boards[b]
         \/ \E c \in Clients : UpdateBoard(c) /\ calls[c].id = b /\ CanUpdate("boards", b, Sent(c))
         \/ BoardConnects(b) \/ BoardLeaves(b)
<1>1. TypeOK /\ TableInv
  BY DEF IInv
<1>2. CASE UNCHANGED vars
  BY <1>2 DEF vars, tables
<1>3. ASSUME NEW c \in Clients, Controller(c)
      PROVE  rows' = rows
  BY <1>3 DEF Controller, PostBoard, PatchBoard, DeleteBoard, PostPlugin, PatchPlugin, DeletePlugin,
       PostService, PatchService, DeleteService, PostFleet, PatchFleet, DeleteFleet, PutInjection,
       DeleteInjection, PostPluginAction, PostServiceAction, Send, tables
<1>4. ASSUME NEW c \in Clients, Board(c)
      PROVE  rows' = rows
  BY <1>4 DEF Board, BoardDoes, BoardRefuses, CallTimesOut, OrphanRuns, OrphanIsLost, tables
<1>5. CASE ConductorCrashes
  BY <1>5 DEF ConductorCrashes, tables
<1>6. ASSUME NEW c \in Clients, Conductor(c),
             ~UpdateBoard(c), ~InsertBoard(c), ~DestroyBoard(c)
      PROVE  rows'.boards = rows.boards
  <2>1. CASE \/ CreatePlugin(c) \/ UpdatePlugin(c) \/ DestroyPlugin(c)
             \/ CreateService(c) \/ UpdateService(c) \/ DestroyService(c)
             \/ CreateFleet(c) \/ UpdateFleet(c) \/ DestroyFleet(c)
    BY <2>1, EntityBoards
  <2>2. CASE CheckName(c) \/ CreateLocation(c) \/ ReadBoard(c) \/ ListExposed(c) \/ RemoveAllowed(c)
    BY <2>2 DEF CheckName, CreateLocation, ReadBoard, ListExposed, RemoveAllowed, tables
  <2>3. CASE \/ InjectPlugin(c) \/ RemovePlugin(c) \/ ActionPlugin(c) \/ ExecuteOnBoard(c)
             \/ LookupInjection(c) \/ SaveInjection(c) \/ CreateInjection(c) \/ DestroyInjection(c)
    BY <2>3 DEF InjectPlugin, RemovePlugin, ActionPlugin, ReadPlugin, ExecuteOnBoard,
         LookupInjection, SaveInjection, CreateInjection, DestroyInjection, tables
  <2>4. CASE EnableService(c) \/ AddAllowed(c) \/ CreateExposed(c) \/ AgentUnreachable(c)
    BY <2>4 DEF EnableService, AddAllowed, CreateExposed, AgentUnreachable, tables
  <2>. QED BY <1>6, <2>1, <2>2, <2>3, <2>4 DEF Conductor
<1>7. ASSUME NEW c \in Clients, InsertBoard(c)
      PROVE  rows'.boards[b] = rows.boards[b]
  <2>1. CASE UNCHANGED rows
    BY <2>1
  <2>2. CASE \E a \in Boards : Insert("boards", a, BoardRow(Changes(Sent(c))))
    <3>1. PICK a \in Boards : a \notin born.boards
                              /\ rows' = [rows EXCEPT !.boards[a] = BoardRow(Changes(Sent(c)))]
      BY <2>2 DEF Insert
    <3>2. a # b
      BY <1>1, <3>1 DEF TableInv, Tables, Uuids
    <3>. QED BY <1>1, <3>1, <3>2 DEF TypeOK, Tables, Uuids
  <2>. QED BY <1>7, <2>1, <2>2 DEF InsertBoard, tables
<1>8. ASSUME NEW c \in Clients, DestroyBoard(c)
      PROVE  rows'.boards[b] = rows.boards[b]
  <2>1. CASE UNCHANGED tables
    BY <2>1 DEF tables
  <2>2. CASE DestroyBoardRow(calls[c].board)
    <3>1. rows' = [rows EXCEPT !.boards[calls[c].board] = NULL]
      BY <2>2 DEF DestroyBoardRow, DeleteRow
    <3>2. calls[c].board # b
      BY <1>1, <3>1 DEF TypeOK, Tables, Uuids
    <3>. QED BY <1>1, <3>1, <3>2 DEF TypeOK, Tables, Uuids
  <2>. QED BY <1>8, <2>1, <2>2 DEF DestroyBoard
<1>9. ASSUME NEW c \in Clients, UpdateBoard(c)
      PROVE  \/ rows'.boards[b] = rows.boards[b]
             \/ calls[c].id = b /\ CanUpdate("boards", b, Sent(c))
  <2>1. CASE UNCHANGED rows
    BY <2>1
  <2>2. CASE /\ CanUpdate("boards", calls[c].id, Sent(c)) /\ calls[c].id # b
             /\ UpdateRow("boards", calls[c].id, Sent(c))
    BY <1>1, <2>2 DEF UpdateRow, TypeOK, Tables, Uuids
  <2>. QED BY <1>9, <2>1, <2>2 DEF UpdateBoard
<1>10. ASSUME NEW a \in Boards, BoardConnects(a) \/ BoardLeaves(a), a # b
       PROVE  rows'.boards[b] = rows.boards[b]
  <2>1. PICK to : rows' = [rows EXCEPT !.boards[a].status = to]
    BY <1>10 DEF BoardConnects, BoardLeaves, SetStatus
  <2>. QED BY <1>1, <1>10, <2>1 DEF TypeOK, Tables, Uuids
<1>. QED BY <1>2, <1>3, <1>4, <1>5, <1>6, <1>7, <1>8, <1>9, <1>10 DEF Next

(* A PATCH saves what the request gave and nothing else of the row.         *)
THEOREM PatchKeepsTheRest == Spec => PatchKeepsOthers
<1>. DEFINE changed(b) == {f \in Columns("boards") : rows'.boards[b][f] # rows.boards[b][f]}
            Kept(b) == \/ changed(b) \subseteq {"status"} /\ (spent').toggles = spent.toggles + 1
                       \/ \E c \in Clients : calls[c] # NULL /\ calls'[c] = NULL
                             /\ calls[c].op = "updateBoard" /\ changed(b) \subseteq calls[c].asked
                       \/ changed(b) = {}
<1>1. ASSUME IInv, [Next]_vars, NEW b \in Boards, Exists("boards", b), rows'.boards[b] # NULL
      PROVE  Kept(b)
  <2>1. TypeOK
    BY <1>1 DEF IInv
  <2>2. CASE rows'.boards[b] = rows.boards[b]
    BY <2>2
  <2>3. ASSUME NEW c \in Clients, UpdateBoard(c), calls[c].id = b, CanUpdate("boards", b, Sent(c))
        PROVE  Kept(b)
    <3>1. Busy(c, "updateBoard", "save") /\ calls[c] # NULL /\ calls[c].op = "updateBoard" /\ Return(c)
          /\ rows' = [rows EXCEPT !.boards[b] = Saved(rows.boards[b], Sent(c))]
      BY <2>3 DEF UpdateBoard, UpdateRow, Busy
    <3>2. calls'[c] = NULL
      BY <2>1, <3>1, ReturnStep
    <3>3. rows'.boards[b] = Saved(rows.boards[b], Sent(c))
      BY <2>1, <3>1 DEF TypeOK, Tables, Uuids
    <3>4. \A f \in Columns("boards") : f \notin calls[c].asked =>
            Saved(rows.boards[b], Sent(c))[f] = rows.boards[b][f]
      BY <1>1, <2>3, <3>1, SavedBoard
    <3>. QED BY <3>1, <3>2, <3>3, <3>4
  <2>4. CASE BoardConnects(b) \/ BoardLeaves(b)
    <3>1. PICK to : /\ rows' = [rows EXCEPT !.boards[b].status = to]
                    /\ spent' = [spent EXCEPT !.toggles = @ + 1]
      BY <2>4 DEF BoardConnects, BoardLeaves, SetStatus
    <3>2. rows'.boards[b] = [rows.boards[b] EXCEPT !.status = to] /\ rows.boards[b] \in Row("boards")
      BY <1>1, <2>1, <3>1 DEF TypeOK, Tables, Uuids, Exists
    <3>3. changed(b) \subseteq {"status"}
      BY <3>2 DEF Row, Columns
    <3>4. (spent').toggles = spent.toggles + 1
      BY <2>1, <3>1 DEF TypeOK
    <3>. QED BY <3>3, <3>4
  <2>. QED BY <1>1, <2>2, <2>3, <2>4, RowChanges
<1>2. IInv /\ [Next]_vars =>
        [\A b \in Boards : Exists("boards", b) /\ rows'.boards[b] # NULL => Kept(b)]_vars
  BY <1>1
<1>. QED BY <1>2, Inductive, PTL DEF Spec, PatchKeepsOthers
=============================================================================
